---- MODULE Spec2Model ----
(***************************************************************************)
(* Model of the winput image package: the BGRA raster buffer, the drawer   *)
(* primitives of drawer/actions.ts, the ImageDrawer wrapper, and the       *)
(* chainable Image / ImageProcessing class.                                *)
(*                                                                         *)
(* A Uint8Array is a sequence of bytes stored in `heap`; an address is an  *)
(* index into `heap`.  An ImageData object is a record                     *)
(* [width, height, buffer] whose buffer field is an address, so aliasing   *)
(* between objects that share a buffer is visible in the model.            *)
(***************************************************************************)
EXTENDS Integers, Sequences, FiniteSets, TLC

VARIABLES
    heap,       \* Seq of byte sequences: every Uint8Array allocated so far
    imageData,  \* ImageDrawer.imageData: [width, height, buffer (address)]
    orig,       \* history: contents of the drawer's buffer at construction
    painted,    \* history: pixel -> colour last passed to setPixel there, or NoColour
    lastOp,     \* history: the last call and its arguments
    images,     \* Seq of Image instances: public width, height, buffer and imageData
    copy,       \* the instance returned by the last clone() (0: clone not called yet)
    snap,       \* history: earlier observations of the image and the calls made
    lineFrame,  \* the drawLine call in progress: its locals and the segments still to draw
    ocr,        \* ocr/actions.ts: globalWorker, the workers created, the calls in flight
    display,    \* display/actions.ts: the registered windows and the show call in flight
    overlay,    \* winput Overlay singleton: its window, pens and initialised flag
    release     \* release script: package versions, bumped list, position in the run

vars == <<heap, imageData, orig, painted, lastOp, images, copy, snap, lineFrame,
          ocr, display, overlay, release>>

imageVars == <<images, copy, snap>>

(* The state outside the image classes, and its value where unused.        *)
sysVars == <<lineFrame, ocr, display, overlay, release>>

Unused == [pc |-> "none"]

NoSys ==
    /\ lineFrame = Unused /\ ocr = Unused /\ display = Unused
    /\ overlay = Unused /\ release = Unused

(* The image state, which the modules outside the image classes leave      *)
(* alone, and its value where no image is involved.                        *)
drawVars == <<heap, imageData, orig, painted, lastOp>>

NoDrawer ==
    /\ heap = << >> /\ imageData = Unused /\ orig = << >>
    /\ painted = << >> /\ lastOp = Unused

----------------------------------------------------------------------------
(* Bounds of the drawer model *)

MaxPos == 1      \* coordinates are drawn from -1..MaxPos
MaxSize == 2     \* widths, heights, radii and extents are drawn from 0..MaxSize
MaxThick == 2    \* thickness is drawn from 1..MaxThick

Green == [r |-> 0, g |-> 255, b |-> 0]
Orange == [r |-> 200, g |-> 100, b |-> 50]
Colours == {Green, Orange}
NoColour == [r |-> -1, g |-> -1, b |-> -1]

Floor2(n) == n \div 2
Abs(n) == IF n < 0 THEN -n ELSE n

----------------------------------------------------------------------------
(* Uint8Array element store: an index outside the array is ignored, the    *)
(* value is reduced modulo 256.                                            *)
Store(buf, idx, v) ==
    IF idx \in 0..(Len(buf) - 1) THEN [buf EXCEPT ![idx + 1] = v % 256] ELSE buf

(* setPixel on an image given by value: img = [width, height, buffer]      *)
(* with buffer the byte sequence.  Returns the buffer after the call.      *)
setPixel_OffByOne(img, px, py, color) ==
    IF px < 0 \/ px > img.width \/ py < 0 \/ py >= img.height
    THEN img.buffer
    ELSE LET idx == (py * img.width + px) * 4
         IN  Store(Store(Store(Store(img.buffer, idx, color.b),
                               idx + 1, color.g), idx + 2, color.r), idx + 3, 255)

setPixel_RGB(img, px, py, color) ==
    IF px < 0 \/ px >= img.width \/ py < 0 \/ py >= img.height
    THEN img.buffer
    ELSE LET idx == (py * img.width + px) * 4
         IN  Store(Store(Store(Store(img.buffer, idx, color.r),
                               idx + 1, color.g), idx + 2, color.b), idx + 3, 255)

setPixel(img, px, py, color) ==
    IF px < 0 \/ px >= img.width \/ py < 0 \/ py >= img.height
    THEN img.buffer
    ELSE LET idx == (py * img.width + px) * 4
         IN  Store(Store(Store(Store(img.buffer, idx, color.b),
                               idx + 1, color.g), idx + 2, color.r), idx + 3, 255)

(* A drawing primitive is modelled by the sequence of setPixel calls it    *)
(* makes, in program order; PaintAll performs them one after the other     *)
(* (calls lo..mid first, then mid+1..hi on the buffer they leave).         *)
RECURSIVE PaintRange(_, _, _, _, _)
PaintRange(img, calls, lo, hi, color) ==
    IF lo > hi THEN img.buffer
    ELSE IF lo = hi THEN setPixel(img, calls[lo][1], calls[lo][2], color)
    ELSE LET mid == (lo + hi) \div 2
         IN  CHOOSE after \in
                 { PaintRange([img EXCEPT !.buffer = buf], calls, mid + 1, hi, color) :
                     buf \in { PaintRange(img, calls, lo, mid, color) } } : TRUE

PaintAll(img, calls, color) == PaintRange(img, calls, 1, Len(calls), color)

----------------------------------------------------------------------------
(* drawRectangle: two loops over the thickness, each painting two sides.   *)
RectRows(x, y, width, height, thickness) ==
    IF thickness <= 0 \/ width <= 0 THEN <<>>
    ELSE [k \in 1..(2 * thickness * width) |->
            LET n == k - 1
                t == n \div (2 * width)
                i == (n % (2 * width)) \div 2
            IN  IF n % 2 = 0 THEN <<x + i, y + t>>
                             ELSE <<x + i, y + height - 1 - t>>]

RectCols(x, y, width, height, thickness) ==
    IF thickness <= 0 \/ height <= 0 THEN <<>>
    ELSE [k \in 1..(2 * thickness * height) |->
            LET n == k - 1
                t == n \div (2 * height)
                i == (n % (2 * height)) \div 2
            IN  IF n % 2 = 0 THEN <<x + t, y + i>>
                             ELSE <<x + width - 1 - t, y + i>>]

drawRectangle_OffByOne(x, y, width, height, thickness) ==
    RectRows(x, y, width, height + 1, thickness)
        \o RectCols(x, y, width, height, thickness)

drawRectangle(x, y, width, height, thickness) ==
    RectRows(x, y, width, height, thickness)
        \o RectCols(x, y, width, height, thickness)

----------------------------------------------------------------------------
RECURSIVE Flatten(_)
Flatten(ss) == IF ss = <<>> THEN <<>> ELSE Head(ss) \o Flatten(Tail(ss))

(* drawCircle: midpoint circle, one ring per unit of thickness.            *)
drawCirclePoints(centerX, centerY, x, y) ==
    << <<centerX + x, centerY + y>>, <<centerX - x, centerY + y>>,
       <<centerX + x, centerY - y>>, <<centerX - x, centerY - y>>,
       <<centerX + y, centerY + x>>, <<centerX - y, centerY + x>>,
       <<centerX + y, centerY - x>>, <<centerX - y, centerY - x>> >>

RECURSIVE CircleLoop(_, _, _, _, _)
CircleLoop(centerX, centerY, x, y, d) ==
    IF x < y
    THEN LET x1 == x + 1
             y1 == IF d < 0 THEN y ELSE y - 1
             d1 == IF d < 0 THEN d + 2 * x1 + 1 ELSE d + 2 * (x1 - y1) + 1
         IN  drawCirclePoints(centerX, centerY, x1, y1)
                 \o CircleLoop(centerX, centerY, x1, y1, d1)
    ELSE <<>>

(* The ring without the points drawn before the loop.                      *)
CircleRing_LoopOnly(centerX, centerY, r) ==
    IF r < 0 THEN <<>>
    ELSE CircleLoop(centerX, centerY, 0, r, 1 - r)

CircleRing(centerX, centerY, r) ==
    IF r < 0 THEN <<>>
    ELSE drawCirclePoints(centerX, centerY, 0, r)
             \o CircleLoop(centerX, centerY, 0, r, 1 - r)

drawCircle(centerX, centerY, radius, thickness) ==
    Flatten([k \in 1..thickness |->
                CircleRing(centerX, centerY, radius - Floor2(thickness) + (k - 1))])

(* drawLine: Bresenham; every stepped point is stamped by drawThickPoint.  *)
drawThickPoint(px, py, thickness) ==
    LET halfThick == Floor2(thickness)
        n == 2 * halfThick + 1
        all == [k \in 1..(n * n) |->
                  << ((k - 1) % n) - halfThick, ((k - 1) \div n) - halfThick >>]
        in(d) == d[1] * d[1] + d[2] * d[2] <= halfThick * halfThick + halfThick
        sel == SelectSeq(all, in)
    IN  [k \in 1..Len(sel) |-> <<px + sel[k][1], py + sel[k][2]>>]

RECURSIVE LineLoop(_, _, _, _, _, _, _, _, _, _)
LineLoop(x, y, err, x2, y2, dx, dy, sx, sy, thickness) ==
    drawThickPoint(x, y, thickness) \o
    (IF x = x2 /\ y = y2 THEN <<>>
     ELSE LET e2 == 2 * err
              stepX == e2 > -dy
              err1 == IF stepX THEN err - dy ELSE err
              xn == IF stepX THEN x + sx ELSE x
              stepY == e2 < dx
              err2 == IF stepY THEN err1 + dx ELSE err1
              yn == IF stepY THEN y + sy ELSE y
          IN  LineLoop(xn, yn, err2, x2, y2, dx, dy, sx, sy, thickness))

drawLine(x1, y1, x2, y2, thickness) ==
    LET dx == Abs(x2 - x1)
        dy == Abs(y2 - y1)
        sx == IF x1 < x2 THEN 1 ELSE -1
        sy == IF y1 < y2 THEN 1 ELSE -1
    IN  LineLoop(x1, y1, dx - dy, x2, y2, dx, dy, sx, sy, thickness)

(* fillRectangle / fillCircle: bounding-box iteration.                     *)
fillRectangle(x, y, width, height) ==
    IF width <= 0 \/ height <= 0 THEN <<>>
    ELSE [k \in 1..(width * height) |->
            <<x + ((k - 1) % width), y + ((k - 1) \div width)>>]

fillCircle(centerX, centerY, radius) ==
    IF radius < 0 THEN <<>>
    ELSE LET n == 2 * radius + 1
             all == [k \in 1..(n * n) |->
                       << ((k - 1) % n) - radius, ((k - 1) \div n) - radius >>]
             in(d) == d[1] * d[1] + d[2] * d[2] <= radius * radius
             sel == SelectSeq(all, in)
         IN  [k \in 1..Len(sel) |-> <<centerX + sel[k][1], centerY + sel[k][2]>>]

----------------------------------------------------------------------------
(* drawEllipse.  The filled branch tests x*x/rx^2 + y*y/ry^2 <= 1 in       *)
(* floating point: with a zero radius the quotient is NaN or Infinity and  *)
(* the test fails; otherwise it is the cross-multiplied integer test.      *)
EllipseInside(x, y, radiusX, radiusY) ==
    /\ radiusX # 0
    /\ radiusY # 0
    /\ x * x * radiusY * radiusY + y * y * radiusX * radiusX
           <= radiusX * radiusX * radiusY * radiusY

EllipseFilled(centerX, centerY, radiusX, radiusY) ==
    IF radiusX < 0 \/ radiusY < 0 THEN <<>>
    ELSE LET n == 2 * radiusX + 1
             m == 2 * radiusY + 1
             all == [k \in 1..(n * m) |->
                       << ((k - 1) % n) - radiusX, ((k - 1) \div n) - radiusY >>]
             in(d) == EllipseInside(d[1], d[2], radiusX, radiusY)
             sel == SelectSeq(all, in)
         IN  [k \in 1..Len(sel) |-> <<centerX + sel[k][1], centerY + sel[k][2]>>]

drawEllipsePoints(centerX, centerY, x, y) ==
    << <<centerX + x, centerY + y>>, <<centerX - x, centerY + y>>,
       <<centerX + x, centerY - y>>, <<centerX - x, centerY - y>> >>

(* Second region of the midpoint ellipse; p4 is four times the decision    *)
(* variable p of the code (which carries a .25 fraction).                  *)
RECURSIVE EllipseRegion2(_, _, _, _, _, _, _, _, _)
EllipseRegion2(centerX, centerY, x, y, px, py, p4, rx2, ry2) ==
    IF y >= 0
    THEN LET y1 == y - 1
             py1 == py - 2 * rx2
             x1 == IF p4 > 0 THEN x ELSE x + 1
             px1 == IF p4 > 0 THEN px ELSE px + 2 * ry2
             p41 == IF p4 > 0 THEN p4 + 4 * (rx2 - py1)
                              ELSE p4 + 4 * (rx2 - py1 + px1)
         IN  drawEllipsePoints(centerX, centerY, x, y)
                 \o EllipseRegion2(centerX, centerY, x1, y1, px1, py1, p41, rx2, ry2)
    ELSE <<>>

(* First region; on exit continues with the second region from the         *)
(* (x, y, px, py) reached.                                                 *)
RECURSIVE EllipseRegion1(_, _, _, _, _, _, _, _, _)
EllipseRegion1(centerX, centerY, x, y, px, py, p4, rx2, ry2) ==
    IF px < py
    THEN LET x1 == x + 1
             px1 == px + 2 * ry2
             y1 == IF p4 < 0 THEN y ELSE y - 1
             py1 == IF p4 < 0 THEN py ELSE py - 2 * rx2
             p41 == IF p4 < 0 THEN p4 + 4 * (ry2 + px1)
                              ELSE p4 + 4 * (ry2 + px1 - py1)
         IN  drawEllipsePoints(centerX, centerY, x, y)
                 \o EllipseRegion1(centerX, centerY, x1, y1, px1, py1, p41, rx2, ry2)
    ELSE EllipseRegion2(centerX, centerY, x, y, px, py,
                        ry2 * (2 * x + 1) * (2 * x + 1)
                            + 4 * rx2 * (y - 1) * (y - 1) - 4 * rx2 * ry2,
                        rx2, ry2)

EllipseRing(centerX, centerY, currentRx, currentRy) ==
    IF currentRx < 0 \/ currentRy < 0 THEN <<>>
    ELSE LET rx2 == currentRx * currentRx
             ry2 == currentRy * currentRy
         IN  EllipseRegion1(centerX, centerY, 0, currentRy, 0, 2 * rx2 * currentRy,
                            4 * ry2 - 4 * rx2 * currentRy + rx2, rx2, ry2)

drawEllipse(centerX, centerY, radiusX, radiusY, thickness, filled) ==
    IF filled THEN EllipseFilled(centerX, centerY, radiusX, radiusY)
    ELSE Flatten([k \in 1..thickness |->
                    EllipseRing(centerX, centerY,
                                radiusX - Floor2(thickness) + (k - 1),
                                radiusY - Floor2(thickness) + (k - 1))])

----------------------------------------------------------------------------
(* drawPolygon.  points is a sequence of <<x, y>>.  A scanline             *)
(* intersection is kept as an exact fraction <<num, den>>, den > 0.        *)
FracLess(a, b) == a[1] * b[2] < b[1] * a[2]
FracFloor(a) == a[1] \div a[2]
FracCeil(a) == -((-a[1]) \div a[2])

RECURSIVE InsertSorted(_, _)
InsertSorted(a, sorted) ==
    IF sorted = <<>> THEN <<a>>
    ELSE IF FracLess(a, Head(sorted)) THEN <<a>> \o sorted
    ELSE <<Head(sorted)>> \o InsertSorted(a, Tail(sorted))

RECURSIVE SortFracs(_)
SortFracs(xs) == IF xs = <<>> THEN <<>> ELSE InsertSorted(Head(xs), SortFracs(Tail(xs)))

NextPoint(points, i) == points[((i + 1) % Len(points)) + 1]

(* The intersections with the second half of the crossing test strict:    *)
(* an edge that ends on row y coming from below is not counted.            *)
Intersections_Strict(points, y) ==
    LET crosses(i) ==
            LET p1 == points[i + 1]
                p2 == NextPoint(points, i)
            IN  (p1[2] <= y /\ p2[2] > y) \/ (p2[2] < y /\ p1[2] > y)
        at(i) ==
            LET p1 == points[i + 1]
                p2 == NextPoint(points, i)
                den == p2[2] - p1[2]
                num == p1[1] * den + (y - p1[2]) * (p2[1] - p1[1])
            IN  IF den > 0 THEN <<num, den>> ELSE <<-num, -den>>
        idx == SelectSeq([k \in 1..Len(points) |-> k - 1], crosses)
    IN  [k \in 1..Len(idx) |-> at(idx[k])]

(* The intersections of row y with the edges, in edge order.               *)
Intersections(points, y) ==
    LET crosses(i) ==
            LET p1 == points[i + 1]
                p2 == NextPoint(points, i)
            IN  (p1[2] <= y /\ p2[2] > y) \/ (p2[2] <= y /\ p1[2] > y)
        at(i) ==
            LET p1 == points[i + 1]
                p2 == NextPoint(points, i)
                den == p2[2] - p1[2]
                num == p1[1] * den + (y - p1[2]) * (p2[1] - p1[1])
            IN  IF den > 0 THEN <<num, den>> ELSE <<-num, -den>>
        idx == SelectSeq([k \in 1..Len(points) |-> k - 1], crosses)
    IN  [k \in 1..Len(idx) |-> at(idx[k])]

(* The spans of row y with the intersections left in edge order.           *)
RowSpans_Unsorted(points, y) ==
    LET xs == Intersections(points, y)
    IN  Flatten([k \in 1..(Len(xs) \div 2) |->
                    LET x1 == FracFloor(xs[2 * k - 1])
                        x2 == FracCeil(xs[2 * k])
                    IN  [j \in 1..(x2 - x1 + 1) |-> <<x1 + j - 1, y>>]])

(* The spans painted in row y: intersections paired 1st-2nd, 3rd-4th, ...  *)
RowSpans(points, y) ==
    LET xs == SortFracs(Intersections(points, y))
    IN  Flatten([k \in 1..(Len(xs) \div 2) |->
                    LET x1 == FracFloor(xs[2 * k - 1])
                        x2 == FracCeil(xs[2 * k])
                    IN  [j \in 1..(x2 - x1 + 1) |-> <<x1 + j - 1, y>>]])

MinY(points) == CHOOSE m \in {points[i][2] : i \in 1..Len(points)} :
                    \A i \in 1..Len(points) : m <= points[i][2]
MaxY(points) == CHOOSE m \in {points[i][2] : i \in 1..Len(points)} :
                    \A i \in 1..Len(points) : m >= points[i][2]

PolygonFilled(points) ==
    IF Len(points) < 3 THEN <<>>
    ELSE Flatten([k \in 1..(MaxY(points) - MinY(points) + 1) |->
                    RowSpans(points, MinY(points) + k - 1)])

PolygonOutline(points, thickness) ==
    Flatten([k \in 1..Len(points) |->
                LET p1 == points[k]
                    p2 == NextPoint(points, k - 1)
                IN  drawLine(p1[1], p1[2], p2[1], p2[2], thickness)])

drawPolygon(points, thickness, filled) ==
    IF Len(points) < 2 THEN <<>>
    ELSE IF filled THEN PolygonFilled(points)
    ELSE PolygonOutline(points, thickness)

(* drawCross: two lines through the centre.                                *)
drawCross(centerX, centerY, size, thickness) ==
    LET halfSize == Floor2(size)
    IN  drawLine(centerX - halfSize, centerY, centerX + halfSize, centerY, thickness)
          \o drawLine(centerX, centerY - halfSize, centerX, centerY + halfSize, thickness)

----------------------------------------------------------------------------
(* drawArrow.  The head end points are floor(x2 - arrowSize*cos(a -+ pi/6))*)
(* and floor(y2 - arrowSize*sin(a -+ pi/6)) with a = atan2(dy, dx).  The   *)
(* products are computed in thousandths; where the result lies within      *)
(* ArrowTol thousandths of an integer the floating-point floor may fall on *)
(* either side, and both outcomes are allowed.                             *)
RECURSIVE IsqrtIn(_, _, _)
IsqrtIn(n, lo, hi) ==
    IF lo >= hi THEN lo
    ELSE LET mid == (lo + hi + 1) \div 2
         IN  IF mid * mid <= n THEN IsqrtIn(n, mid, hi) ELSE IsqrtIn(n, lo, mid - 1)

Isqrt(n) == IsqrtIn(n, 0, 46000)

FloorsNear(base, v1000, tol) ==
    { (base * 1000 - v1000 - tol) \div 1000, (base * 1000 - v1000 + tol) \div 1000 }

(* The possible <<arrowX1, arrowY1, arrowX2, arrowY2>>.                    *)
ArrowHeads(x1, y1, x2, y2, arrowSize) ==
    LET zero == (x2 = x1 /\ y2 = y1)
        dx == IF zero THEN 1 ELSE x2 - x1
        dy == IF zero THEN 0 ELSE y2 - y1
        len2 == 2 * Isqrt((dx * dx + dy * dy) * 1000000)
        cosM == (arrowSize * (dx * 1732 + dy * 1000) * 1000) \div len2
        sinM == (arrowSize * (dy * 1732 - dx * 1000) * 1000) \div len2
        cosP == (arrowSize * (dx * 1732 - dy * 1000) * 1000) \div len2
        sinP == (arrowSize * (dy * 1732 + dx * 1000) * 1000) \div len2
    IN  FloorsNear(x2, cosM, 10) \X FloorsNear(y2, sinM, 10)
            \X FloorsNear(x2, cosP, 10) \X FloorsNear(y2, sinP, 10)

drawArrow(x1, y1, x2, y2, thickness, head) ==
    drawLine(x1, y1, x2, y2, thickness)
        \o drawLine(x2, y2, head[1], head[2], thickness)
        \o drawLine(x2, y2, head[3], head[4], thickness)

(* drawArc.  Angles are given in units of pi/4; the angle of an integer    *)
(* offset (x, y) is located exactly on a scale of pi/8: even values lie on *)
(* a multiple of pi/4, odd values strictly between two of them.            *)
normalizeAngle(k) == k % 8

Angle16(x, y) ==
    CASE x = 0 /\ y = 0 -> 0
      [] y = 0 /\ x > 0 -> 0
      [] y = 0 /\ x < 0 -> 8
      [] x = 0 /\ y > 0 -> 4
      [] x = 0 /\ y < 0 -> 12
      [] x > 0 /\ y > 0 -> IF y < x THEN 1 ELSE IF y = x THEN 2 ELSE 3
      [] x < 0 /\ y > 0 -> IF y > -x THEN 5 ELSE IF y = -x THEN 6 ELSE 7
      [] x < 0 /\ y < 0 -> IF -y < -x THEN 9 ELSE IF y = x THEN 10 ELSE 11
      [] x > 0 /\ y < 0 -> IF -y > x THEN 13 ELSE IF -y = x THEN 14 ELSE 15

(* tie: whether an angle that coincides with the start or the end of the   *)
(* range compares as inside (the comparison is between rounded doubles).   *)
(* negZero: the x argument of atan2 is a negated zero, and                 *)
(* atan2(+-0, -0) is +-pi where atan2(+-0, 0) is +-0.                      *)
angleInRange_NoWrap(x, y, negZero, startAngle, endAngle, tie) ==
    LET a == IF x = 0 /\ y = 0 /\ negZero THEN 8 ELSE Angle16(x, y)
        start == 2 * normalizeAngle(startAngle)
        end == 2 * normalizeAngle(endAngle)
        ge(u, v) == u > v \/ (u = v /\ tie)
        le(u, v) == u < v \/ (u = v /\ tie)
    IN  ge(a, start) /\ le(a, end)

angleInRange(x, y, negZero, startAngle, endAngle, tie) ==
    LET a == IF x = 0 /\ y = 0 /\ negZero THEN 8 ELSE Angle16(x, y)
        start == 2 * normalizeAngle(startAngle)
        end == 2 * normalizeAngle(endAngle)
        ge(u, v) == u > v \/ (u = v /\ tie)
        le(u, v) == u < v \/ (u = v /\ tie)
    IN  IF start <= end THEN ge(a, start) /\ le(a, end)
                        ELSE ge(a, start) \/ le(a, end)

drawCirclePoint(centerX, centerY, x, y, negZero, startAngle, endAngle, thickness, tie) ==
    IF angleInRange(x, y, negZero, startAngle, endAngle, tie)
    THEN Flatten([k \in 1..thickness |->
                    LET offset == (k - 1) - Floor2(thickness)
                    IN  << <<centerX + x + offset, centerY + y>>,
                           <<centerX + x, centerY + y + offset>> >>])
    ELSE <<>>

drawSymmetricPoints(centerX, centerY, x, y, startAngle, endAngle, thickness, tie) ==
    LET pt(px, py, negated) ==
            drawCirclePoint(centerX, centerY, px, py, negated /\ px = 0,
                            startAngle, endAngle, thickness, tie)
    IN  pt(x, y, FALSE) \o pt(-x, y, TRUE) \o pt(x, -y, FALSE) \o pt(-x, -y, TRUE)
          \o pt(y, x, FALSE) \o pt(-y, x, TRUE) \o pt(y, -x, FALSE) \o pt(-y, -x, TRUE)

RECURSIVE ArcLoop(_, _, _, _, _, _, _, _, _)
ArcLoop(centerX, centerY, x, y, d, startAngle, endAngle, thickness, tie) ==
    IF x < y
    THEN LET x1 == x + 1
             y1 == IF d < 0 THEN y ELSE y - 1
             d1 == IF d < 0 THEN d + 2 * x1 + 1 ELSE d + 2 * (x1 - y1) + 1
         IN  drawSymmetricPoints(centerX, centerY, x1, y1,
                                 startAngle, endAngle, thickness, tie)
               \o ArcLoop(centerX, centerY, x1, y1, d1,
                          startAngle, endAngle, thickness, tie)
    ELSE <<>>

drawArc(centerX, centerY, radius, startAngle, endAngle, thickness, tie) ==
    drawSymmetricPoints(centerX, centerY, 0, radius, startAngle, endAngle, thickness, tie)
        \o ArcLoop(centerX, centerY, 0, radius, 1 - radius,
                   startAngle, endAngle, thickness, tie)

----------------------------------------------------------------------------
(* drawText.  A text is a sequence of one-character strings.  The glyphs   *)
(* of "A", "I" and " " are taken from the table; the model's alphabet adds *)
(* "a" (upper-cased to "A") and "?" (no glyph).                            *)
FONT_5X7 ==
    [ A |-> << <<0, 1, 1, 1, 0>>, <<1, 0, 0, 0, 1>>, <<1, 0, 0, 0, 1>>,
               <<1, 1, 1, 1, 1>>, <<1, 0, 0, 0, 1>>, <<1, 0, 0, 0, 1>>,
               <<1, 0, 0, 0, 1>> >>,
      I |-> << <<1, 1, 1, 1, 1>>, <<0, 0, 1, 0, 0>>, <<0, 0, 1, 0, 0>>,
               <<0, 0, 1, 0, 0>>, <<0, 0, 1, 0, 0>>, <<0, 0, 1, 0, 0>>,
               <<1, 1, 1, 1, 1>> >>,
      sp |-> << <<0, 0, 0, 0, 0>>, <<0, 0, 0, 0, 0>>, <<0, 0, 0, 0, 0>>,
                <<0, 0, 0, 0, 0>>, <<0, 0, 0, 0, 0>>, <<0, 0, 0, 0, 0>>,
                <<0, 0, 0, 0, 0>> >> ]

toUpperCase(ch) == IF ch = "a" THEN "A" ELSE ch

HasGlyph(ch) == ch \in {"A", "I", " "}
Glyph(ch) == IF ch = "A" THEN FONT_5X7.A ELSE IF ch = "I" THEN FONT_5X7.I ELSE FONT_5X7.sp

charWidth == 5
charHeight == 7
spacing == 1

(* The calls that stamp one glyph with its left edge at currentX.          *)
GlyphCalls(bitmap, currentX, y, size) ==
    LET cells == SelectSeq([k \in 1..(charHeight * charWidth) |->
                              << (k - 1) \div charWidth, (k - 1) % charWidth >>],
                           LAMBDA rc : bitmap[rc[1] + 1][rc[2] + 1] # 0)
    IN  IF size <= 0 THEN <<>>
        ELSE Flatten([c \in 1..Len(cells) |->
                [k \in 1..(size * size) |->
                    << currentX + cells[c][2] * size + ((k - 1) % size),
                       y + cells[c][1] * size + ((k - 1) \div size) >>]])

RECURSIVE TextLoop_GlyphWidth(_, _, _, _)
TextLoop_GlyphWidth(text, currentX, y, size) ==
    IF text = <<>> THEN <<>>
    ELSE LET char == toUpperCase(Head(text))
         IN  IF ~HasGlyph(char)
             THEN TextLoop_GlyphWidth(Tail(text), currentX + charWidth * size, y, size)
             ELSE GlyphCalls(Glyph(char), currentX, y, size)
                      \o TextLoop_GlyphWidth(Tail(text),
                                             currentX + (charWidth + spacing) * size, y, size)

RECURSIVE TextLoop(_, _, _, _)
TextLoop(text, currentX, y, size) ==
    IF text = <<>> THEN <<>>
    ELSE LET char == toUpperCase(Head(text))
             advance == currentX + (charWidth + spacing) * size
         IN  IF ~HasGlyph(char) THEN TextLoop(Tail(text), advance, y, size)
             ELSE GlyphCalls(Glyph(char), currentX, y, size)
                      \o TextLoop(Tail(text), advance, y, size)

drawText(x, y, text, size) == TextLoop(text, x, y, size)

White == [r |-> 255, g |-> 255, b |-> 255]

----------------------------------------------------------------------------
(* The ImageDrawer wrapper (one method per primitive).  Every method calls *)
(* the primitive on this.imageData and returns this: the ImageData object  *)
(* and its buffer are never replaced.                                      *)

Deref(d) == [width |-> d.width, height |-> d.height, buffer |-> heap[d.buffer]]

PixelsOf(width, height) == (0..(width - 1)) \X (0..(height - 1))

PixelBytes(buf, width, x, y) ==
    LET idx == (y * width + x) * 4
    IN  <<buf[idx + 1], buf[idx + 2], buf[idx + 3], buf[idx + 4]>>

Range(seq) == {seq[i] : i \in DOMAIN seq}

(* The call sequences of the primitives do not depend on the buffer, so    *)
(* they are computed once per image size.  setPixel stores components of   *)
(* the colour, or constants, at places that depend only on the image size  *)
(* and the coordinates.  Replayed on a zeroed probe buffer with a colour   *)
(* of three distinct non-zero components, a call that changes nothing      *)
(* stores only what earlier calls of the same operation stored already,    *)
(* whatever the buffer and the colour: it is dropped from the sequence     *)
(* that is replayed on the heap.  `targets` is the set of image pixels     *)
(* named by the calls, whether or not setPixel wrote them.                 *)
DrawDims == { <<2, 2>>, <<3, 1>>, <<1, 3>> }

RECURSIVE Zeros(_)
Zeros(n) ==
    IF n = 0 THEN <<>>
    ELSE IF n = 1 THEN <<0>>
    ELSE Zeros(n \div 2) \o Zeros(n - n \div 2)

Probe(d) == [width |-> d[1], height |-> d[2], buffer |-> Zeros(d[1] * d[2] * 4)]
ProbeColour == [r |-> 1, g |-> 2, b |-> 3]

EffectiveStep(acc, call) ==
    LET buf == setPixel(acc.img, call[1], call[2], ProbeColour)
    IN  IF buf = acc.img.buffer THEN acc
        ELSE [img |-> [acc.img EXCEPT !.buffer = buf], calls |-> Append(acc.calls, call)]

RECURSIVE EffectiveRange(_, _, _, _)
EffectiveRange(acc, calls, lo, hi) ==
    IF lo > hi THEN acc
    ELSE IF lo = hi THEN EffectiveStep(acc, calls[lo])
    ELSE LET mid == (lo + hi) \div 2
         IN  CHOOSE after \in
                 { EffectiveRange(left, calls, mid + 1, hi) :
                     left \in { EffectiveRange(acc, calls, lo, mid) } } : TRUE

Effective(d, calls) ==
    EffectiveRange([img |-> Probe(d), calls |-> <<>>], calls, 1, Len(calls)).calls

Plan(d, calls) ==
    [calls |-> Effective(d, calls),
     targets |-> Range(calls) \cap PixelsOf(d[1], d[2])]

Plans(callSet) == [d \in DrawDims |-> { Plan(d, calls) : calls \in callSet }]

Dims(d) == <<d.width, d.height>>

DrawerCall_Realloc(plan, color) ==
    /\ heap' = Append(heap, PaintAll(Deref(imageData), plan.calls, color))
    /\ imageData' = [imageData EXCEPT !.buffer = Len(heap) + 1]
    /\ painted' = [q \in DOMAIN painted |->
                      IF q \in plan.targets THEN color ELSE painted[q]]
    /\ lastOp' = "draw"
    /\ UNCHANGED <<orig, imageVars, sysVars>>

DrawerCall(plan, color) ==
    /\ heap' = [heap EXCEPT ![imageData.buffer] =
                   PaintAll(Deref(imageData), plan.calls, color)]
    /\ painted' = [q \in DOMAIN painted |->
                      IF q \in plan.targets THEN color ELSE painted[q]]
    /\ lastOp' = "draw"
    /\ UNCHANGED <<imageData, orig, imageVars, sysVars>>

Pos == -1..MaxPos
Size == 0..MaxSize
Thick == 1..MaxThick

RectanglePlans ==
    Plans({ drawRectangle(x, y, width, height, thickness) :
              x \in Pos, y \in Pos, width \in Size, height \in Size, thickness \in Thick })

rectangle ==
    \E plan \in RectanglePlans[Dims(imageData)], color \in Colours : DrawerCall(plan, color)

CirclePlans ==
    Plans({ drawCircle(x, y, radius, thickness) :
              x \in Pos, y \in Pos, radius \in Size, thickness \in Thick })

circle ==
    \E plan \in CirclePlans[Dims(imageData)], color \in Colours : DrawerCall(plan, color)

LinePlans ==
    Plans({ drawLine(x1, y1, x2, y2, thickness) :
              x1 \in Pos, y1 \in Pos, x2 \in Pos, y2 \in Pos, thickness \in Thick })

line ==
    \E plan \in LinePlans[Dims(imageData)], color \in Colours : DrawerCall(plan, color)

FillRectPlans ==
    Plans({ fillRectangle(x, y, width, height) :
              x \in Pos, y \in Pos, width \in Size, height \in Size })

fillRect ==
    \E plan \in FillRectPlans[Dims(imageData)], color \in Colours : DrawerCall(plan, color)

FillCirclePlans ==
    Plans({ fillCircle(x, y, radius) : x \in Pos, y \in Pos, radius \in Size })

fillCircleOp ==
    \E plan \in FillCirclePlans[Dims(imageData)], color \in Colours : DrawerCall(plan, color)

EllipsePlans ==
    Plans({ drawEllipse(x, y, radiusX, radiusY, thickness, filled) :
              x \in Pos, y \in Pos, radiusX \in Size, radiusY \in Size,
              thickness \in Thick, filled \in BOOLEAN })

ellipse ==
    \E plan \in EllipsePlans[Dims(imageData)], color \in Colours : DrawerCall(plan, color)

(* Vertex lists of 0 to 4 points anchored at (x, y) with extent s.         *)
PolyPoints(x, y, s, n) ==
    SubSeq(<< <<x, y>>, <<x + s, y>>, <<x + s, y + s>>, <<x, y + s>> >>, 1, n)

PolygonPlans ==
    Plans({ drawPolygon(PolyPoints(x, y, s, n), thickness, filled) :
              x \in Pos, y \in Pos, s \in Size, n \in 0..4,
              thickness \in Thick, filled \in BOOLEAN })

polygon ==
    \E plan \in PolygonPlans[Dims(imageData)], color \in Colours : DrawerCall(plan, color)

ArrowSizes == {2, 10}

ArrowPlans ==
    Plans(UNION { { drawArrow(x1, y1, x2, y2, thickness, head) :
                      head \in ArrowHeads(x1, y1, x2, y2, arrowSize) } :
                  x1 \in Pos, y1 \in Pos, x2 \in Pos, y2 \in Pos,
                  arrowSize \in ArrowSizes, thickness \in Thick })

arrow ==
    \E plan \in ArrowPlans[Dims(imageData)], color \in Colours : DrawerCall(plan, color)

CrossPlans ==
    Plans({ drawCross(x, y, size, thickness) :
              x \in Pos, y \in Pos, size \in 0..(2 * MaxSize + 1), thickness \in Thick })

cross ==
    \E plan \in CrossPlans[Dims(imageData)], color \in Colours : DrawerCall(plan, color)

Angles == {-2, 1, 4}

ArcPlans ==
    Plans({ drawArc(x, y, radius, startAngle, endAngle, thickness, tie) :
              x \in Pos, y \in Pos, radius \in Size,
              startAngle \in Angles, endAngle \in Angles,
              thickness \in Thick, tie \in BOOLEAN })

arc ==
    \E plan \in ArcPlans[Dims(imageData)], color \in Colours : DrawerCall(plan, color)

Texts == { <<>>, <<"A">>, <<"a", "I">>, <<"?", "I">>, <<" ", "A">> }

TextPlans ==
    Plans({ drawText(x, y, t, size) :
              x \in Pos \cup {-6}, y \in Pos \cup {-5}, t \in Texts, size \in 1..MaxSize })

text ==
    \E plan \in TextPlans[Dims(imageData)], color \in Colours \cup {White} :
        DrawerCall(plan, color)

(* No Image instance exists while the drawer is exercised on its own.      *)
NoImage == images = <<>> /\ copy = 0 /\ snap = [n |-> 0]

(* A direct call of the exported setPixel.                                 *)
OutOfBounds(d, px, py) == px < 0 \/ px >= d.width \/ py < 0 \/ py >= d.height

setPixelAt(px, py, color) ==
    /\ heap' = [heap EXCEPT ![imageData.buffer] =
                   setPixel(Deref(imageData), px, py, color)]
    /\ painted' = [q \in DOMAIN painted |->
                      IF q = <<px, py>> THEN color ELSE painted[q]]
    /\ lastOp' = IF OutOfBounds(imageData, px, py) THEN "setPixelOutside"
                                                  ELSE "setPixelInside"
    /\ UNCHANGED <<imageData, orig, imageVars, sysVars>>

setPixelCall ==
    \E px \in -1..imageData.width, py \in -1..imageData.height, color \in Colours :
        setPixelAt(px, py, color)

(* The buffer handed to the drawer: every byte distinct from its           *)
(* neighbours, alpha bytes other than 255.                                 *)
OrigBuffer(width, height) == [i \in 1..(width * height * 4) |-> (37 * (i - 1) + 11) % 256]

InitDraw ==
    \E d \in DrawDims :
        /\ heap = << OrigBuffer(d[1], d[2]) >>
        /\ imageData = [width |-> d[1], height |-> d[2], buffer |-> 1]
        /\ orig = OrigBuffer(d[1], d[2])
        /\ painted = [q \in PixelsOf(d[1], d[2]) |-> NoColour]
        /\ lastOp = "new"
        /\ NoImage
        /\ NoSys

NextDraw ==
    \/ rectangle
    \/ circle
    \/ line
    \/ fillRect
    \/ fillCircleOp
    \/ ellipse
    \/ polygon
    \/ arrow
    \/ cross
    \/ arc
    \/ text
    \/ setPixelCall

SpecDraw == InitDraw /\ [][NextDraw]_vars

----------------------------------------------------------------------------
(* C2: for every image and every coordinate outside it (px < 0,            *)
(* px >= width, py < 0 or py >= height) setPixel returns normally and      *)
(* leaves every byte of the buffer, and the buffer object, unchanged.      *)
C2_OutOfBoundsIsNoOp ==
    [][lastOp' = "setPixelOutside" => (heap' = heap /\ imageData' = imageData)]_vars

C2_Witness ==
    /\ lastOp = "setPixelOutside"
    /\ \E q \in DOMAIN painted : painted[q] # NoColour

(* C3: after any sequence of drawing operations, every pixel that some     *)
(* operation painted holds the bytes (blue, green, red, 255) of the colour *)
(* last painted there at byte offset (y*width+x)*4, and every pixel that   *)
(* no operation painted keeps its original four bytes, alpha included.     *)
C3_PaintedBytes ==
    \A q \in DOMAIN painted :
        PixelBytes(heap[imageData.buffer], imageData.width, q[1], q[2]) =
            IF painted[q] = NoColour
            THEN PixelBytes(orig, imageData.width, q[1], q[2])
            ELSE <<painted[q].b, painted[q].g, painted[q].r, 255>>

C3_Witness ==
    /\ lastOp = "draw"
    /\ \E q \in DOMAIN painted : painted[q] = Orange
    /\ \E q \in DOMAIN painted : painted[q] = Green
    /\ \E q \in DOMAIN painted :
          /\ painted[q] = NoColour
          /\ PixelBytes(orig, imageData.width, q[1], q[2])[4] # 255

(* C4: after any sequence of drawer operations, shapes partly or wholly    *)
(* outside the image included, the width and height are the ones the       *)
(* drawer was constructed with, the buffer is the same object, and         *)
(* buffer.length = width*height*4.                                         *)
C4_DrawerKeepsBuffer ==
    /\ DOMAIN painted = PixelsOf(imageData.width, imageData.height)
    /\ imageData.buffer = 1
    /\ Len(heap) = 1
    /\ Len(heap[imageData.buffer]) = imageData.width * imageData.height * 4
    /\ Len(orig) = Len(heap[imageData.buffer])

C4_Witness ==
    /\ lastOp = "draw"
    /\ heap[imageData.buffer] = orig
    /\ \A q \in DOMAIN painted : painted[q] = NoColour

----------------------------------------------------------------------------
(* drawRectangle called once on a blank 10x10 black image.                 *)
Black(alpha) == [i \in 1..(10 * 10 * 4) |-> IF i % 4 = 0 THEN alpha ELSE 0]

InitRect ==
    \E alpha \in {0, 255} :
        /\ heap = << Black(alpha) >>
        /\ imageData = [width |-> 10, height |-> 10, buffer |-> 1]
        /\ orig = Black(alpha)
        /\ painted = [q \in PixelsOf(10, 10) |-> NoColour]
        /\ lastOp = [op |-> "new"]
        /\ NoImage
        /\ NoSys

drawRectangleCall ==
    /\ lastOp.op = "new"
    /\ \E x \in Pos, y \in Pos, width \in Size \cup {4}, height \in Size \cup {4},
          thickness \in Thick, color \in Colours :
          LET calls == drawRectangle(x, y, width, height, thickness)
          IN  /\ heap' = [heap EXCEPT ![imageData.buffer] =
                             PaintAll(Deref(imageData), calls, color)]
              /\ painted' = [q \in DOMAIN painted |->
                                IF q \in Range(calls) THEN color ELSE painted[q]]
              /\ lastOp' = [op |-> "drawRectangle",
                            args |-> <<x, y, width, height, thickness>>,
                            color |-> color]
    /\ UNCHANGED <<imageData, orig, imageVars, sysVars>>

NextRect == drawRectangleCall

SpecRect == InitRect /\ [][NextRect]_vars

(* C1: drawRectangle(img, 0, 0, 4, 4) with thickness 1 and colour c on a   *)
(* 10x10 all-black buffer sets exactly the 12 border pixels of the box     *)
(* x in 0..3, y in 0..3 to colour c and leaves the 4 interior pixels and   *)
(* the 84 pixels outside the box unchanged.                                *)
C1_RectangleBorderOnly ==
    (lastOp.op = "drawRectangle" /\ lastOp.args = <<0, 0, 4, 4, 1>>) =>
        LET border == { q \in (0..3) \X (0..3) : q[1] \in {0, 3} \/ q[2] \in {0, 3} }
            c == lastOp.color
        IN  /\ Cardinality(border) = 12
            /\ Cardinality(PixelsOf(10, 10) \ ((0..3) \X (0..3))) = 84
            /\ \A q \in PixelsOf(10, 10) :
                  PixelBytes(heap[imageData.buffer], 10, q[1], q[2]) =
                      IF q \in border THEN <<c.b, c.g, c.r, 255>>
                                      ELSE PixelBytes(orig, 10, q[1], q[2])

C1_Witness ==
    /\ lastOp.op = "drawRectangle"
    /\ lastOp.args = <<0, 0, 4, 4, 1>>
    /\ lastOp.color = Orange
    /\ heap[imageData.buffer] # orig

----------------------------------------------------------------------------
(* The processing functions called by ImageProcessing.  processing/        *)
(* actions.ts is not among the sources: the functions below follow the     *)
(* specification (sections 3, 4.3, 4.4, 4.5).  They work on an image given *)
(* by value, img = [width, height, buffer], and return bytes or an image.  *)

MaxOps == 2      \* calls made on an Image instance
MaxRadius == 2   \* morphology radius (iterations) is drawn from 0..MaxRadius
MaxSeed == 1     \* initial images are Pattern(d, 0) .. Pattern(d, MaxSeed)

Max(S) == CHOOSE m \in S : \A n \in S : n <= m
Min(S) == CHOOSE m \in S : \A n \in S : m <= n

(* The bytes of a buffer, given as a function of the byte index from 1.    *)
Bytes(f) == f \o <<>>

ChannelAt(img, x, y, c) == img.buffer[(y * img.width + x) * 4 + c + 1]

(* invert: 255 - channel for blue, green and red; alpha is kept.           *)
Invert_Clamped(img) ==
    Bytes([i \in 1..Len(img.buffer) |->
              IF i % 4 = 0 THEN img.buffer[i] ELSE Max({0, 254 - img.buffer[i]})])

Invert(img) ==
    Bytes([i \in 1..Len(img.buffer) |->
              IF i % 4 = 0 THEN img.buffer[i] ELSE 255 - img.buffer[i]])

(* flip: pure index reversal of columns (horizontal) and rows (vertical).  *)
Flip_Shift(img, horizontal, vertical) ==
    Bytes([i \in 1..Len(img.buffer) |->
              LET p == (i - 1) \div 4
                  x == p % img.width
                  y == p \div img.width
                  sx == IF horizontal THEN (x + 1) % img.width ELSE x
                  sy == IF vertical THEN (y + 1) % img.height ELSE y
              IN  ChannelAt(img, sx, sy, (i - 1) % 4)])

Flip(img, horizontal, vertical) ==
    Bytes([i \in 1..Len(img.buffer) |->
              LET p == (i - 1) \div 4
                  x == p % img.width
                  y == p \div img.width
                  sx == IF horizontal THEN img.width - 1 - x ELSE x
                  sy == IF vertical THEN img.height - 1 - y ELSE y
              IN  ChannelAt(img, sx, sy, (i - 1) % 4)])

(* Morphology: each pass replaces every channel of every pixel by the max  *)
(* (dilate) or min (erode) over the square 3x3 neighbourhood, the          *)
(* coordinates clamped to the image; `pixels` passes are made.             *)
Clamp(v, lo, hi) == IF v < lo THEN lo ELSE IF v > hi THEN hi ELSE v

Square(img, x, y) ==
    { <<Clamp(x + dx, 0, img.width - 1), Clamp(y + dy, 0, img.height - 1)>> :
        dx \in -1..1, dy \in -1..1 }

(* The values of one channel over the neighbourhood of the pixel that      *)
(* holds byte i.                                                           *)
Neighbourhood(img, i) ==
    LET p == (i - 1) \div 4
    IN  { ChannelAt(img, q[1], q[2], (i - 1) % 4) :
            q \in Square(img, p % img.width, p \div img.width) }

DilatePass(img) == Bytes([i \in 1..Len(img.buffer) |-> Max(Neighbourhood(img, i))])

ErodePass(img) == Bytes([i \in 1..Len(img.buffer) |-> Min(Neighbourhood(img, i))])

RECURSIVE Dilate_Forward(_, _)
Dilate_Forward(img, pixels) ==
    IF pixels <= 0 THEN img.buffer
    ELSE LET Near(i) ==
                 LET p == (i - 1) \div 4
                     x == p % img.width
                     y == p \div img.width
                 IN  { ChannelAt(img, q[1], q[2], (i - 1) % 4) :
                         q \in { <<Clamp(x + dx, 0, img.width - 1),
                                   Clamp(y + dy, 0, img.height - 1)>> :
                                     dx \in 0..1, dy \in 0..1 } }
         IN  Dilate_Forward([img EXCEPT !.buffer =
                                 Bytes([i \in 1..Len(img.buffer) |-> Max(Near(i))])],
                            pixels - 1)

RECURSIVE Dilate(_, _)
Dilate(img, pixels) ==
    IF pixels <= 0 THEN img.buffer
    ELSE Dilate([img EXCEPT !.buffer = DilatePass(img)], pixels - 1)

RECURSIVE Erode(_, _)
Erode(img, pixels) ==
    IF pixels <= 0 THEN img.buffer
    ELSE Erode([img EXCEPT !.buffer = ErodePass(img)], pixels - 1)

(* Opening: erode then dilate.  Closing: dilate then erode.                *)
Erode2Dilate(img, pixels) == Dilate([img EXCEPT !.buffer = Erode(img, pixels)], pixels)

Dilate2Erode(img, pixels) == Erode([img EXCEPT !.buffer = Dilate(img, pixels)], pixels)

(* histogram: 256 bins per channel, bin v counting the pixels whose        *)
(* channel value is v.  Bytes are blue, green, red, alpha.                 *)
Bins(img, c, pixels) ==
    [v \in 0..255 |-> Cardinality({ p \in pixels : img.buffer[p * 4 + c + 1] = v })]

Histogram_SkipLast(img) ==
    LET pixels == 0..(img.width * img.height - 2)
    IN  [r |-> Bins(img, 2, pixels), g |-> Bins(img, 1, pixels), b |-> Bins(img, 0, pixels)]

Histogram(img) ==
    LET pixels == 0..(img.width * img.height - 1)
    IN  [r |-> Bins(img, 2, pixels), g |-> Bins(img, 1, pixels), b |-> Bins(img, 0, pixels)]

(* crop: a new w x h image holding the source region at (x, y); a pixel    *)
(* read outside the source is transparent black.                           *)
Crop_OffByOne(img, x, y, w, h) ==
    [width |-> w, height |-> h,
     buffer |-> Bytes([i \in 1..(w * h * 4) |->
                          LET p == (i - 1) \div 4
                              sx == x + (p % w)
                              sy == y + (p \div w) + 1
                          IN  IF sx \in 0..(img.width - 1) /\ sy \in 0..(img.height - 1)
                              THEN ChannelAt(img, sx, sy, (i - 1) % 4)
                              ELSE 0])]

Crop(img, x, y, w, h) ==
    [width |-> w, height |-> h,
     buffer |-> Bytes([i \in 1..(w * h * 4) |->
                          LET p == (i - 1) \div 4
                              sx == x + (p % w)
                              sy == y + (p \div w)
                          IN  IF sx \in 0..(img.width - 1) /\ sy \in 0..(img.height - 1)
                              THEN ChannelAt(img, sx, sy, (i - 1) % 4)
                              ELSE 0])]

(* clone: a deep copy, the bytes in a new buffer.                          *)
Clone(img) == Bytes([i \in 1..Len(img.buffer) |-> img.buffer[i]])

(* toPixels: one [R, G, B, A] tuple per pixel, in row-major order.         *)
ToPixels(img) ==
    [p \in 1..(img.width * img.height) |->
        <<img.buffer[p * 4 - 1], img.buffer[p * 4 - 2], img.buffer[p * 4 - 3],
          img.buffer[p * 4]>>] \o <<>>

----------------------------------------------------------------------------
(* The Image class (extends ImageProcessing).  The constructor copies      *)
(* width, height and buffer of the ImageData into public fields; every     *)
(* processing method assigns the function's result to this.imageData and   *)
(* returns this.  A call is made through a reference: `original`, or       *)
(* `copy`, the value clone() returned.                                     *)

Ref(r) == IF r = "original" THEN 1 ELSE copy

Receivers == IF copy = 0 THEN {"original"} ELSE {"original", "copy"}

(* What toPixels(), and the drawer, display and ocr getters, see of        *)
(* instance i: this.imageData.                                             *)
Observe(i) ==
    LET d == images[i].imageData
    IN  [width |-> d.width, height |-> d.height, pixels |-> ToPixels(Deref(d))]

(* this.imageData = <newData>; return this.                                *)
Method(r, call, newHeap, newData) ==
    /\ snap.n < MaxOps
    /\ heap' = newHeap
    /\ images' = [images EXCEPT ![Ref(r)].imageData = newData]
    /\ lastOp' = call
    /\ snap' = [snap EXCEPT !.n = @ + 1, !.prev = lastOp,
                            !.pre = Observe(Ref(r)), !.pre2 = snap.pre,
                            !.viaOriginal = @ \/ r = "original"]
    /\ UNCHANGED <<copy, imageData, orig, painted, sysVars>>

(* A function that rewrites the bytes of the buffer it is given.           *)
InPlace(d, bytes) == [heap EXCEPT ![d.buffer] = bytes]

clone ==
    \E r \in Receivers :
        LET d == images[Ref(r)].imageData
        IN  /\ snap.n < MaxOps
            /\ heap' = Append(heap, Clone(Deref(d)))
            /\ images' = [images EXCEPT ![Ref(r)].imageData =
                             [d EXCEPT !.buffer = Len(heap) + 1]]
            /\ copy' = Ref(r)
            /\ lastOp' = [op |-> "clone", via |-> r]
            /\ snap' = [snap EXCEPT !.n = @ + 1, !.prev = lastOp,
                                    !.pre = Observe(Ref(r)), !.pre2 = snap.pre,
                                    !.atClone = Observe(1), !.viaOriginal = FALSE]
            /\ UNCHANGED <<imageData, orig, painted, sysVars>>

invert ==
    \E r \in Receivers :
        LET d == images[Ref(r)].imageData
        IN  Method(r, [op |-> "invert", via |-> r], InPlace(d, Invert(Deref(d))), d)

flip ==
    \E r \in Receivers, horizontal \in BOOLEAN, vertical \in BOOLEAN :
        LET d == images[Ref(r)].imageData
        IN  Method(r, [op |-> "flip", via |-> r,
                       horizontal |-> horizontal, vertical |-> vertical],
                   InPlace(d, Flip(Deref(d), horizontal, vertical)), d)

erode2dilate ==
    \E r \in Receivers, pixels \in 0..MaxRadius :
        LET d == images[Ref(r)].imageData
        IN  Method(r, [op |-> "erode2dilate", via |-> r, pixels |-> pixels],
                   InPlace(d, Erode2Dilate(Deref(d), pixels)), d)

dilate2erode ==
    \E r \in Receivers, pixels \in 0..MaxRadius :
        LET d == images[Ref(r)].imageData
        IN  Method(r, [op |-> "dilate2erode", via |-> r, pixels |-> pixels],
                   InPlace(d, Dilate2Erode(Deref(d), pixels)), d)

CropArgs == { <<0, 0, 1, 1>>, <<1, 1, 2, 2>> }

(* crop(x, y, w, h) with the arguments drawn from `rects`; the call record  *)
(* keeps the ImageData passed in, its bytes and the number of buffers       *)
(* allocated before the call.                                               *)
cropWith(rects) ==
    \E r \in Receivers, a \in rects :
        LET d == images[Ref(r)].imageData
            new == Crop(Deref(d), a[1], a[2], a[3], a[4])
        IN  Method(r, [op |-> "crop", via |-> r, args |-> a, src |-> d,
                       srcBytes |-> heap[d.buffer], allocated |-> Len(heap)],
                   Append(heap, new.buffer),
                   [width |-> new.width, height |-> new.height, buffer |-> Len(heap) + 1])

crop == cropWith(CropArgs)

(* histogram() returns the function's result and assigns nothing.          *)
histogram ==
    \E r \in Receivers :
        LET d == images[Ref(r)].imageData
        IN  /\ snap.n < MaxOps
            /\ lastOp' = [op |-> "histogram", via |-> r, result |-> Histogram(Deref(d))]
            /\ snap' = [snap EXCEPT !.n = @ + 1, !.prev = lastOp,
                                    !.pre = Observe(Ref(r)), !.pre2 = snap.pre,
                                    !.viaOriginal = @ \/ r = "original"]
            /\ UNCHANGED <<heap, images, copy, imageData, orig, painted, sysVars>>

(* Images handed to the constructor.                                       *)
ImageDims == { <<3, 3>>, <<4, 1>>, <<2, 2>> }

Palette == <<0, 255, 40, 200, 90>>

Pattern(d, k) ==
    Bytes([i \in 1..(d[1] * d[2] * 4) |-> Palette[((i * i * (k + 1) + 3 * i + k) % 5) + 1]])

NewImage(d, k) ==
        /\ heap = << Pattern(d, k) >>
        /\ imageData = [width |-> d[1], height |-> d[2], buffer |-> 1]
        /\ orig = Pattern(d, k)
        /\ painted = << >>
        /\ images = << [width |-> d[1], height |-> d[2], buffer |-> 1,
                        imageData |-> [width |-> d[1], height |-> d[2], buffer |-> 1]] >>
        /\ copy = 0
        /\ NoSys
        /\ lastOp = [op |-> "new"]
        /\ snap = LET seen == [width |-> d[1], height |-> d[2],
                               pixels |-> ToPixels([width |-> d[1], height |-> d[2],
                                                    buffer |-> Pattern(d, k)])]
                  IN  [n |-> 0, prev |-> [op |-> "new"], pre |-> seen, pre2 |-> seen,
                       atClone |-> seen, viaOriginal |-> FALSE]

InitImage == \E d \in ImageDims, k \in 0..MaxSeed : NewImage(d, k)

NextImage ==
    \/ clone
    \/ invert
    \/ flip
    \/ erode2dilate
    \/ dilate2erode
    \/ crop
    \/ histogram

SpecImage == InitImage /\ [][NextImage]_vars

----------------------------------------------------------------------------
(* C5: clone() yields a new image instance independent of the original:    *)
(* after copy = original.clone(), every processing operation applied to    *)
(* copy leaves the image observed through original (its pixels, width and  *)
(* height) unchanged.                                                      *)
C5_CloneIsIndependent ==
    (copy # 0 /\ ~snap.viaOriginal) => Observe(1) = snap.atClone

(* C6: after any chain of processing methods, the dimension-changing ones  *)
(* included, the public width, height and buffer fields of the instance    *)
(* equal those of the image data its drawer, display, ocr and toPixels     *)
(* operate on, and buffer.length = width*height*4.                         *)
C6_PublicFieldsFollow ==
    \A i \in DOMAIN images :
        /\ images[i].width = images[i].imageData.width
        /\ images[i].height = images[i].imageData.height
        /\ images[i].buffer = images[i].imageData.buffer
        /\ Len(heap[images[i].buffer]) = images[i].width * images[i].height * 4

(* C7: invert is an involution: applying invert twice returns an image     *)
(* whose every pixel byte equals the original.                             *)
C7_InvertInvolution ==
    (lastOp.op = "invert" /\ snap.prev.op = "invert") => Observe(1) = snap.pre2

C7_Witness ==
    /\ lastOp.op = "invert"
    /\ snap.prev.op = "invert"
    /\ snap.pre # snap.pre2
    /\ \E p \in DOMAIN snap.pre2.pixels : 255 \in {snap.pre2.pixels[p][c] : c \in 1..3}

(* C8: flip is an involution: flip(true, false) applied twice yields the   *)
(* original image pixel for pixel, and likewise flip(false, true).         *)
C8_FlipInvolution ==
    (/\ lastOp.op = "flip"
     /\ snap.prev.op = "flip"
     /\ lastOp.horizontal = snap.prev.horizontal
     /\ lastOp.vertical = snap.prev.vertical
     /\ lastOp.horizontal # lastOp.vertical) => Observe(1) = snap.pre2

C8_Witness ==
    /\ lastOp.op = "flip"
    /\ snap.prev.op = "flip"
    /\ lastOp.horizontal /\ snap.prev.horizontal
    /\ ~lastOp.vertical /\ ~snap.prev.vertical
    /\ snap.pre.width >= 3
    /\ snap.pre # snap.pre2

(* C9: opening and closing are idempotent: for every image and radius p,   *)
(* erode2dilate(p) applied twice gives the same image as applied once, and *)
(* so does dilate2erode(p).                                                *)
C9_OpenCloseIdempotent ==
    (/\ lastOp.op \in {"erode2dilate", "dilate2erode"}
     /\ snap.prev.op = lastOp.op
     /\ snap.prev.pixels = lastOp.pixels) => Observe(1) = snap.pre

C9_Witness ==
    /\ lastOp.op = "erode2dilate"
    /\ snap.prev.op = "erode2dilate"
    /\ snap.prev.pixels = lastOp.pixels
    /\ lastOp.pixels >= 1
    /\ snap.pre # snap.pre2
    /\ Cardinality({snap.pre.pixels[p] : p \in DOMAIN snap.pre.pixels}) > 1

(* The sum of f[lo] .. f[hi].                                              *)
RECURSIVE SumRange(_, _, _)
SumRange(f, lo, hi) ==
    IF lo = hi THEN f[lo]
    ELSE SumRange(f, lo, (lo + hi) \div 2) + SumRange(f, (lo + hi) \div 2 + 1, hi)

(* C10: the 256 bins of the red histogram returned by histogram() sum to   *)
(* width*height, and calling histogram() changes no pixel of the image.    *)
C10_HistogramSum ==
    lastOp.op = "histogram" =>
        /\ DOMAIN lastOp.result.r = 0..255
        /\ SumRange(lastOp.result.r, 0, 255) = Observe(1).width * Observe(1).height
        /\ Observe(1) = snap.pre

C10_Witness ==
    /\ lastOp.op = "histogram"
    /\ Cardinality({v \in 0..255 : lastOp.result.r[v] > 0}) >= 3
    /\ snap.prev.op = "crop"

----------------------------------------------------------------------------
(* crop on a 10x10 image.  Every pixel of the source differs from every    *)
(* other: blue and green encode the column and the row.                    *)

Gradient(d, k) ==
    Bytes([i \in 1..(d[1] * d[2] * 4) |->
              LET p == (i - 1) \div 4
                  c == (i - 1) % 4
              IN  IF c = 0 THEN (p % d[1]) * 20 + k
                  ELSE IF c = 1 THEN (p \div d[1]) * 20
                  ELSE IF c = 2 THEN p
                  ELSE 255])

InitCrop ==
    \E k \in 0..MaxSeed :
        /\ heap = << Gradient(<<10, 10>>, k) >>
        /\ imageData = [width |-> 10, height |-> 10, buffer |-> 1]
        /\ orig = Gradient(<<10, 10>>, k)
        /\ painted = << >>
        /\ images = << [width |-> 10, height |-> 10, buffer |-> 1,
                        imageData |-> [width |-> 10, height |-> 10, buffer |-> 1]] >>
        /\ copy = 0
        /\ NoSys
        /\ lastOp = [op |-> "new"]
        /\ snap = LET seen == [width |-> 10, height |-> 10,
                               pixels |-> ToPixels([width |-> 10, height |-> 10,
                                                    buffer |-> Gradient(<<10, 10>>, k)])]
                  IN  [n |-> 0, prev |-> [op |-> "new"], pre |-> seen, pre2 |-> seen,
                       atClone |-> seen, viaOriginal |-> FALSE]

(* The rectangles passed to crop: corners 0..MaxSize+1, sides 1..MaxSize+1, *)
(* and rectangles that reach or pass the right and bottom edges.            *)
CropRects ==
    ((0..(MaxSize + 1)) \X (0..(MaxSize + 1)) \X (1..(MaxSize + 1)) \X (1..(MaxSize + 1)))
        \cup { <<7, 7, 3, 3>>, <<8, 9, 3, 1>>, <<9, 8, 1, 3>> }

cropCall == lastOp.op = "new" /\ cropWith(CropRects)

NextCrop == cropCall

SpecCrop == InitCrop /\ [][NextCrop]_vars

(* The rectangle of a crop call lies inside the image passed in.           *)
CropInside(call) ==
    /\ call.args[1] >= 0 /\ call.args[2] >= 0
    /\ call.args[3] >= 1 /\ call.args[4] >= 1
    /\ call.args[1] + call.args[3] <= call.src.width
    /\ call.args[2] + call.args[4] <= call.src.height

(* C11: crop(x, y, w, h) with the rectangle inside the source returns a    *)
(* newly allocated w x h buffer whose pixel (i, j) equals source pixel     *)
(* (x+i, y+j) for 0 <= i < w, 0 <= j < h, and leaves the source buffer     *)
(* unchanged.                                                              *)
C11_CropCopiesRegion ==
    (lastOp.op = "crop" /\ CropInside(lastOp)) =>
        LET a == lastOp.args
            new == images[Ref(lastOp.via)].imageData
        IN  /\ new.width = a[3] /\ new.height = a[4]
            /\ new.buffer > lastOp.allocated
            /\ new.buffer # lastOp.src.buffer
            /\ Len(heap[new.buffer]) = a[3] * a[4] * 4
            /\ \A q \in PixelsOf(a[3], a[4]) :
                   PixelBytes(heap[new.buffer], a[3], q[1], q[2])
                       = PixelBytes(lastOp.srcBytes, lastOp.src.width,
                                    a[1] + q[1], a[2] + q[2])
            /\ heap[lastOp.src.buffer] = lastOp.srcBytes

C11_Witness ==
    /\ lastOp.op = "crop"
    /\ lastOp.args = <<2, 2, 3, 3>>
    /\ lastOp.src.width = 10 /\ lastOp.src.height = 10
    /\ PixelBytes(heap[images[1].imageData.buffer], 3, 0, 0)
           = PixelBytes(heap[1], 10, 2, 2)
    /\ PixelBytes(heap[images[1].imageData.buffer], 3, 0, 0)
           # PixelBytes(heap[1], 10, 0, 0)

----------------------------------------------------------------------------
(* drawLine, one loop iteration per step.  Coordinates are JavaScript      *)
(* numbers; here they are counted in units of 1/Half pixel, so that an     *)
(* integer coordinate is a multiple of Half and `x += sx` adds Half.  The  *)
(* comparisons of the loop (e2 > -dy, e2 < dx, x === x2) are unchanged by  *)
(* the common factor.                                                      *)

Half == 2

MaxSteps == 12   \* loop iterations followed per drawLine call

(* setPixel with coordinates in units of 1/Half pixel, as the stores it    *)
(* makes, <<index, value>> in program order: the bounds test is on the     *)
(* numbers, and idx = (py * width + px) * 4 is an integer for every        *)
(* multiple of 1/2.                                                        *)
setPixelHalf(img, px, py, color) ==
    IF px < 0 \/ px >= img.width * Half \/ py < 0 \/ py >= img.height * Half
    THEN << >>
    ELSE LET idx == ((py * img.width + px) * 4) \div Half
         IN  << <<idx, color.b>>, <<idx + 1, color.g>>, <<idx + 2, color.r>>,
                <<idx + 3, 255>> >>

(* The buffer after a list of stores made in order: a byte holds what the  *)
(* last store at its index wrote; an index outside the array is ignored.   *)
StoreAll(buf, stores) ==
    Bytes([i \in 1..Len(buf) |->
              LET ks == { k \in 1..Len(stores) : stores[k][1] = i - 1 }
              IN  IF ks = {} THEN buf[i] ELSE stores[Max(ks)][2] % 256])

(* The offsets drawThickPoint stamps, for each thickness.                  *)
StampOffsets == [t \in Thick |-> drawThickPoint(0, 0, t)]

(* drawThickPoint(x, y) at a position in units of 1/Half pixel.            *)
StampHalf(img, px, py, thickness, color) ==
    CHOOSE after \in
        { StoreAll(img.buffer, stores) :
            stores \in { Flatten([k \in 1..Len(StampOffsets[thickness]) |->
                                     setPixelHalf(img,
                                                  px + StampOffsets[thickness][k][1] * Half,
                                                  py + StampOffsets[thickness][k][2] * Half,
                                                  color)]) } } : TRUE

(* Lines 111-118: the locals of a drawLine call for the segment seg, with  *)
(* the segments the caller draws afterwards.                               *)
LineSetup(op, seg, rest, thickness) ==
    [pc |-> "loop", op |-> op, rest |-> rest, thickness |-> thickness,
     x1 |-> seg[1], y1 |-> seg[2], x2 |-> seg[3], y2 |-> seg[4],
     dx |-> Abs(seg[3] - seg[1]), dy |-> Abs(seg[4] - seg[2]),
     sx |-> IF seg[1] < seg[3] THEN 1 ELSE -1,
     sy |-> IF seg[2] < seg[4] THEN 1 ELSE -1,
     err |-> Abs(seg[3] - seg[1]) - Abs(seg[4] - seg[2]),
     x |-> seg[1], y |-> seg[2], steps |-> 0, visited |-> <<>>]

(* The coordinates passed: 0, 1/Half, .. MaxSize pixels.                   *)
LineCoords == 0..(MaxSize * Half)

IntCoords == { c \in LineCoords : c % Half = 0 }

lineVars == <<imageData, orig, painted, lastOp, imageVars, ocr, display, overlay, release>>

(* A drawing function is entered: the first drawLine call sets up.         *)
LineBegin(op, segs, thickness) ==
    /\ lineFrame.pc = "idle"
    /\ lineFrame' = LineSetup(op, segs[1], Tail(segs), thickness)
    /\ UNCHANGED <<heap, lineVars>>

drawLineCall ==
    \E x1 \in LineCoords, y1 \in LineCoords, x2 \in LineCoords, y2 \in LineCoords,
       thickness \in Thick :
        LineBegin("drawLine", << <<x1, y1, x2, y2>> >>, thickness)

(* drawCross(centerX, centerY, size): halfSize = floor(size / 2) pixels.   *)
drawCrossCall ==
    \E centerX \in LineCoords, centerY \in LineCoords, size \in Size, thickness \in Thick :
        LET halfSize == Floor2(size) * Half
        IN  LineBegin("drawCross",
                      << <<centerX - halfSize, centerY, centerX + halfSize, centerY>>,
                         <<centerX, centerY - halfSize, centerX, centerY + halfSize>> >>,
                      thickness)

(* drawPolygon, outline branch: one drawLine per edge, the last edge back  *)
(* to the first point.                                                     *)
PolygonEdges(points) ==
    [k \in 1..Len(points) |->
        LET p2 == NextPoint(points, k - 1)
        IN  <<points[k][1], points[k][2], p2[1], p2[2]>>]

drawPolygonCall ==
    \E x \in {0, 1}, y \in {0, 1}, s \in {Half, Half + 1}, n \in 2..4, thickness \in Thick :
        LineBegin("drawPolygon", PolygonEdges(PolyPoints(x, y, s, n)), thickness)

(* drawArrow between integer end points: the shaft, then two lines from    *)
(* (x2, y2) to the floored head points.                                    *)
drawArrowCall ==
    \E x1 \in IntCoords, y1 \in IntCoords, x2 \in IntCoords, y2 \in IntCoords,
       thickness \in Thick :
        \E head \in ArrowHeads(x1 \div Half, y1 \div Half, x2 \div Half, y2 \div Half, 2) :
            LineBegin("drawArrow",
                      << <<x1, y1, x2, y2>>,
                         <<x2, y2, head[1] * Half, head[2] * Half>>,
                         <<x2, y2, head[3] * Half, head[4] * Half>> >>,
                      thickness)

(* One iteration of `while (true)`, lines 120-134; on break the function   *)
(* returns, and the caller makes its next drawLine call or returns.        *)
drawLineStep ==
    /\ lineFrame.pc = "loop"
    /\ lineFrame.steps < MaxSteps
    /\ heap' = [heap EXCEPT ![imageData.buffer] =
                   StampHalf(Deref(imageData), lineFrame.x, lineFrame.y,
                             lineFrame.thickness, Green)]
    /\ LET f == [lineFrame EXCEPT !.visited = Append(@, <<lineFrame.x, lineFrame.y>>)]
       IN  IF f.x = f.x2 /\ f.y = f.y2
           THEN lineFrame' =
                    IF f.rest = <<>>
                    THEN [f EXCEPT !.pc = "done"]
                    ELSE LineSetup(f.op, f.rest[1], Tail(f.rest), f.thickness)
           ELSE LET e2 == 2 * f.err
                    stepX == e2 > -f.dy
                    err1 == IF stepX THEN f.err - f.dy ELSE f.err
                    stepY == e2 < f.dx
                IN  lineFrame' = [f EXCEPT !.err = IF stepY THEN err1 + f.dx ELSE err1,
                                           !.x = IF stepX THEN @ + f.sx * Half ELSE @,
                                           !.y = IF stepY THEN @ + f.sy * Half ELSE @,
                                           !.steps = @ + 1]
    /\ UNCHANGED lineVars

InitLine ==
    /\ heap = << Zeros((MaxSize + 1) * (MaxSize + 1) * 4) >>
    /\ imageData = [width |-> MaxSize + 1, height |-> MaxSize + 1, buffer |-> 1]
    /\ orig = Zeros((MaxSize + 1) * (MaxSize + 1) * 4)
    /\ painted = << >>
    /\ lastOp = "new"
    /\ NoImage
    /\ lineFrame = [pc |-> "idle"]
    /\ ocr = Unused /\ display = Unused /\ overlay = Unused /\ release = Unused

NextLine ==
    \/ drawLineCall
    \/ drawCrossCall
    \/ drawPolygonCall
    \/ drawArrowCall
    \/ drawLineStep

SpecLine == InitLine /\ [][NextLine]_vars

(* A call that has been entered keeps running: the loop is not suspended.  *)
SpecLineFair == SpecLine /\ WF_vars(drawLineStep)

IntegerLineDone ==
    /\ lineFrame.pc = "done"
    /\ lineFrame.op = "drawLine"
    /\ \A c \in {lineFrame.x1, lineFrame.y1, lineFrame.x2, lineFrame.y2} : c % Half = 0

(* The points visited are the Bresenham points from (x1, y1) to (x2, y2):  *)
(* both end points, max(dx, dy) + 1 points, each step changing x and y by  *)
(* at most one pixel, every point within half a pixel of the ideal line    *)
(* along the minor axis.                                                   *)
BresenhamPoints(f) ==
    LET v == f.visited
        long == Max({f.dx, f.dy})
    IN  /\ Len(v) = long \div Half + 1
        /\ v[1] = <<f.x1, f.y1>>
        /\ v[Len(v)] = <<f.x2, f.y2>>
        /\ \A k \in 1..(Len(v) - 1) :
               /\ Abs(v[k + 1][1] - v[k][1]) <= Half
               /\ Abs(v[k + 1][2] - v[k][2]) <= Half
               /\ v[k + 1] # v[k]
        /\ \A k \in 1..Len(v) :
               2 * Abs((v[k][1] - f.x1) * (f.y2 - f.y1) - (v[k][2] - f.y1) * (f.x2 - f.x1))
                   <= long * Half

(* The pixels of the image that have been painted (the buffer starts zeroed *)
(* and every setPixel stores alpha 255), in pixel coordinates.              *)
PaintedPixels ==
    { q \in PixelsOf(imageData.width, imageData.height) :
        PixelBytes(heap[imageData.buffer], imageData.width, q[1], q[2])[4] = 255 }

(* C20: drawLine between integer end points visits exactly the Bresenham   *)
(* points from (x1, y1) to (x2, y2), both end points included, each step   *)
(* changing x and y by at most 1; the painted set is the union, over the   *)
(* visited points, of the disc dx*dx + dy*dy <= (t/2)*(t/2) around the     *)
(* point (for thickness 1 exactly the visited points).                     *)
C20_LinePaintsDiscs ==
    IntegerLineDone =>
        /\ BresenhamPoints(lineFrame)
        /\ PaintedPixels =
               { q \in PixelsOf(imageData.width, imageData.height) :
                   \E k \in 1..Len(lineFrame.visited) :
                       LET ddx == q[1] - lineFrame.visited[k][1] \div Half
                           ddy == q[2] - lineFrame.visited[k][2] \div Half
                       IN  4 * (ddx * ddx + ddy * ddy)
                               <= lineFrame.thickness * lineFrame.thickness }

----------------------------------------------------------------------------
(* The ImageDrawer methods called with an options object.  An option is    *)
(* the set of its values: {} where the key is absent (undefined), {v}      *)
(* where it is given; a destructuring default `key = d` applies to {}.     *)

Get(option, default) == IF option = {} THEN default ELSE CHOOSE v \in option : TRUE

OptDims == <<24, 16>>

(* A method of the drawer has run: the primitive's setPixel calls are made *)
(* on the drawer's image with the colour the primitive resolved.           *)
OptionCall(op, args, options, calls, color) ==
    /\ lastOp = [op |-> "new"]
    /\ heap' = [heap EXCEPT ![imageData.buffer] = PaintAll(Deref(imageData), calls, color)]
    /\ lastOp' = [op |-> op, args |-> args, options |-> options]
    /\ UNCHANGED <<imageData, orig, painted, imageVars, sysVars>>

(* text(x, y, text, options): options is passed to drawText unchanged;     *)
(* drawText reads `color` (default white) and `size` (default 1).          *)
TextOptions ==
    { [color |-> c, size |-> z, scale |-> k] :
        c \in {{}, {Orange}}, z \in {{}} \cup { {n} : n \in 1..MaxSize },
        k \in {{}} \cup { {n} : n \in 1..MaxSize } }

OptTexts == { <<"A">>, <<"a", "I">>, <<"?", "I">>, <<"?", "A">>, <<" ", "A">>, <<"?">> }

textWith ==
    \E x \in 0..1, y \in 0..1, t \in OptTexts, options \in TextOptions :
        OptionCall("text", <<x, y, t>>, options,
                   drawText(x, y, t, Get(options.size, 1)), Get(options.color, White))

(* DrawOptions {color, thickness}, with `filled` for ellipse and polygon   *)
(* and `arrowSize` for arrow.                                              *)
OptColours == { {}, {Orange} }

OptThick == { {} } \cup { {t} : t \in 1..(MaxThick + 1) }

DrawOptions == { [color |-> c, thickness |-> t] : c \in OptColours, t \in OptThick }

FillOptions ==
    { [color |-> c, thickness |-> t, filled |-> f] :
        c \in OptColours, t \in OptThick, f \in { {}, {TRUE} } }

ArrowOptions ==
    { [color |-> c, thickness |-> t, arrowSize |-> a] :
        c \in OptColours, t \in OptThick, a \in { {}, {2} } }

(* The setPixel calls of a shape method for given arguments and resolved   *)
(* options.                                                                *)
ShapeCalls(op, a, thickness, filled) ==
    CASE op = "rectangle" -> drawRectangle(a[1], a[2], a[3], a[4], thickness)
      [] op = "circle" -> drawCircle(a[1], a[2], a[3], thickness)
      [] op = "line" -> drawLine(a[1], a[2], a[3], a[4], thickness)
      [] op = "ellipse" -> drawEllipse(a[1], a[2], a[3], a[4], thickness, filled)
      [] op = "polygon" -> drawPolygon(a, thickness, filled)
      [] op = "arrow" -> drawArrow(a[1], a[2], a[3], a[4], thickness, a[5])
      [] op = "cross" -> drawCross(a[1], a[2], a[3], thickness)
      [] op = "arc" -> drawArc(a[1], a[2], a[3], a[4], a[5], thickness, a[6])
      [] op = "fillRect" -> fillRectangle(a[1], a[2], a[3], a[4])
      [] op = "fillCircle" -> fillCircle(a[1], a[2], a[3])

(* Each method passes its options to the primitive, which resolves them    *)
(* with the defaults of its destructuring pattern.                         *)
ShapeCall(op, a, options, thickness, filled) ==
    OptionCall(op, a, options, ShapeCalls(op, a, thickness, filled),
               Get(options.color, Green))

rectangleWith ==
    \E a \in { <<2, 2, 8, 6>>, <<10, 4, 7, 7>> }, options \in DrawOptions :
        ShapeCall("rectangle", a, options, Get(options.thickness, 2), FALSE)

circleWith ==
    \E a \in { <<8, 8, 4>>, <<12, 7, 6>> }, options \in DrawOptions :
        ShapeCall("circle", a, options, Get(options.thickness, 1), FALSE)

lineWith ==
    \E a \in { <<2, 2, 12, 6>>, <<20, 12, 5, 3>> }, options \in DrawOptions :
        ShapeCall("line", a, options, Get(options.thickness, 2), FALSE)

ellipseWith ==
    \E a \in { <<10, 8, 6, 4>>, <<8, 8, 3, 5>> }, options \in FillOptions :
        ShapeCall("ellipse", a, options, Get(options.thickness, 1),
                  Get(options.filled, FALSE))

polygonWith ==
    \E a \in { << <<3, 3>>, <<14, 4>>, <<8, 12>> >>, << <<2, 2>>, <<12, 10>> >> },
       options \in FillOptions :
        ShapeCall("polygon", a, options, Get(options.thickness, 2),
                  Get(options.filled, FALSE))

arrowWith ==
    \E ends \in { <<2, 8, 16, 8>>, <<4, 3, 14, 12>> }, options \in ArrowOptions :
        \E head \in ArrowHeads(ends[1], ends[2], ends[3], ends[4],
                               Get(options.arrowSize, 10)) :
            ShapeCall("arrow", ends \o <<head>>, options, Get(options.thickness, 2), FALSE)

crossWith ==
    \E a \in { <<8, 8, 6>>, <<12, 6, 9>> }, options \in DrawOptions :
        ShapeCall("cross", a, options, Get(options.thickness, 2), FALSE)

arcWith ==
    \E a \in { <<10, 8, 5, 1, 4>>, <<8, 8, 4, -2, 1>> }, tie \in BOOLEAN,
       options \in DrawOptions :
        ShapeCall("arc", a \o <<tie>>, options, Get(options.thickness, 2), FALSE)

(* fillRect and fillCircle take the colour as an optional parameter.       *)
fillRectWith ==
    \E a \in { <<2, 2, 8, 6>>, <<20, 12, 8, 8>> }, color \in OptColours :
        ShapeCall("fillRect", a, [color |-> color], 1, TRUE)

fillCircleWith ==
    \E a \in { <<8, 8, 4>>, <<1, 1, 3>> }, color \in OptColours :
        ShapeCall("fillCircle", a, [color |-> color], 1, TRUE)

InitOptions ==
    /\ heap = << Zeros(OptDims[1] * OptDims[2] * 4) >>
    /\ imageData = [width |-> OptDims[1], height |-> OptDims[2], buffer |-> 1]
    /\ orig = Zeros(OptDims[1] * OptDims[2] * 4)
    /\ painted = << >>
    /\ lastOp = [op |-> "new"]
    /\ NoImage
    /\ NoSys

NextOptions ==
    \/ textWith
    \/ rectangleWith
    \/ circleWith
    \/ lineWith
    \/ ellipseWith
    \/ polygonWith
    \/ arrowWith
    \/ crossWith
    \/ arcWith
    \/ fillRectWith
    \/ fillCircleWith

SpecOptions == InitOptions /\ [][NextOptions]_vars

(* The pixels of a glyph stamped with its top left corner at (ox, oy),     *)
(* every set cell (row, col) a k x k block.                                *)
GlyphPixels(bitmap, ox, oy, k) ==
    { <<ox + c * k + sx, oy + r * k + sy>> :
        <<r, c, sx, sy>> \in
            { q \in (0..(charHeight - 1)) \X (0..(charWidth - 1))
                      \X (0..(k - 1)) \X (0..(k - 1)) :
                bitmap[q[1] + 1][q[2] + 1] # 0 } }

(* The pixels of the image covered by a text at (x, y) with scale k, when  *)
(* a drawn character advances the cursor by (charWidth + spacing) * k and  *)
(* a character without glyph by missingAdvance * k.                        *)
TextPixels(x, y, t, k, missingAdvance) ==
    LET Has(i) == HasGlyph(toUpperCase(t[i]))
        Cursor(i) ==
            x + k * ((charWidth + spacing) * Cardinality({ j \in 1..(i - 1) : Has(j) })
                     + missingAdvance * Cardinality({ j \in 1..(i - 1) : ~Has(j) }))
    IN  UNION { GlyphPixels(Glyph(toUpperCase(t[i])), Cursor(i), y, k) :
                  i \in { j \in 1..Len(t) : Has(j) } }
            \cap PixelsOf(imageData.width, imageData.height)

(* A text call whose text holds a character without glyph.                 *)
TextWithMissingGlyph ==
    /\ lastOp.op = "text"
    /\ \E i \in 1..Len(lastOp.args[3]) : ~HasGlyph(toUpperCase(lastOp.args[3][i]))

(* C13 as stated: a character without glyph paints nothing and advances    *)
(* the cursor by the glyph width, 5 columns times the scale factor, and    *)
(* the following characters are positioned accordingly.                    *)
C13_AdvanceByGlyphWidth ==
    TextWithMissingGlyph =>
        PaintedPixels = TextPixels(lastOp.args[1], lastOp.args[2], lastOp.args[3],
                                   Get(lastOp.options.size, 1), charWidth)

(* C13: in drawText a character without glyph paints no pixel and          *)
(* advances the cursor by the glyph width plus the spacing, (5 + 1)        *)
(* columns times the size factor, exactly as a drawn character does; the   *)
(* following characters are positioned accordingly.                        *)
C13_AdvanceByCell ==
    TextWithMissingGlyph =>
        PaintedPixels = TextPixels(lastOp.args[1], lastOp.args[2], lastOp.args[3],
                                   Get(lastOp.options.size, 1), charWidth + spacing)

C13_Witness ==
    /\ lastOp.op = "text"
    /\ lastOp.args = <<1, 0, <<"?", "I">> >>
    /\ lastOp.options.size = {2}
    /\ <<13, 0>> \in PaintedPixels
    /\ <<12, 0>> \notin PaintedPixels

(* C14: text(x, y, text, {scale: k}) renders each glyph scaled by k: every *)
(* set cell of a supported character's glyph is painted as a k x k block,  *)
(* and with the option omitted k is 1.                                     *)
C14_ScaleOption ==
    (lastOp.op = "text" /\ lastOp.options.size = {}) =>
        PaintedPixels = TextPixels(lastOp.args[1], lastOp.args[2], lastOp.args[3],
                                   Get(lastOp.options.scale, 1), charWidth + spacing)

(* The defaults the documentation of the drawer states.                    *)
DocThickness(op) == IF op \in {"rectangle", "line", "arrow", "cross"} THEN 2 ELSE 1

(* C15: when options are omitted each drawer method applies the documented *)
(* defaults: colour green for every shape and for text, thickness 2 for    *)
(* rectangle, line, arrow and cross, thickness 1 for circle, ellipse,      *)
(* polygon and arc (text at scale 1, shapes not filled).                   *)
C15_DocumentedDefaults ==
    (lastOp.op # "new" /\ \A key \in DOMAIN lastOp.options : lastOp.options[key] = {}) =>
        heap[imageData.buffer] =
            PaintAll([width |-> imageData.width, height |-> imageData.height, buffer |-> orig],
                     IF lastOp.op = "text"
                     THEN drawText(lastOp.args[1], lastOp.args[2], lastOp.args[3], 1)
                     ELSE ShapeCalls(lastOp.op, lastOp.args, DocThickness(lastOp.op), FALSE),
                     Green)

----------------------------------------------------------------------------
(* OCR (ocr/actions.ts).  One module-level globalWorker (0: null); the     *)
(* functions are async, so calls interleave at their awaits.  ocr.calls    *)
(* holds every call made with its position, ocr.workers every worker       *)
(* created with the language it was created for, ocr.log every recognition *)
(* performed: the language asked for and the language of the worker.       *)

MaxCalls == 3    \* OCR calls (recognize, terminate, reinitialize) made in one behaviour

Langs == {"eng", "deu"}

(* options.lang: absent, the empty string, or a language code.             *)
LangOptions == { {}, {""} } \cup { {l} : l \in Langs }

(* const lang = options.lang || "eng"                                      *)
LangOf(option) == IF option = {} \/ option = {""} THEN "eng" ELSE CHOOSE l \in option : TRUE

ocrOthers == <<drawVars, imageVars, lineFrame, display, overlay, release>>

OcrCall(kind, pc, lang) ==
    /\ Len(ocr.calls) < MaxCalls
    /\ ocr' = [ocr EXCEPT !.calls = Append(@, [kind |-> kind, pc |-> pc, lang |-> lang,
                                               worker |-> 0])]
    /\ UNCHANGED ocrOthers

(* recognize(source, options) up to its first await (the imports).         *)
recognize == \E option \in LangOptions : OcrCall("recognize", "initWorker", LangOf(option))

(* initWorker(lang): if (!globalWorker) createWorker(lang) is started and  *)
(* awaited; otherwise the existing worker is returned.                     *)
initWorker ==
    \E i \in DOMAIN ocr.calls :
        /\ ocr.calls[i].pc = "initWorker"
        /\ ocr' = IF ocr.globalWorker = 0
                  THEN [ocr EXCEPT !.calls[i].pc = "createWorker"]
                  ELSE [ocr EXCEPT !.calls[i].pc = "recognize",
                                   !.calls[i].worker = ocr.globalWorker]
        /\ UNCHANGED ocrOthers

(* createWorker(lang) settles: globalWorker = <the new worker>; initWorker *)
(* returns globalWorker, reinitialize returns.  A rejection is caught by   *)
(* recognize (which returns null) and rejects reinitialize.                *)
createWorker ==
    \E i \in DOMAIN ocr.calls, ok \in BOOLEAN :
        /\ ocr.calls[i].pc = "createWorker"
        /\ ocr' = IF ok
                  THEN [ocr EXCEPT !.workers = Append(@, [lang |-> ocr.calls[i].lang,
                                                          terminated |-> FALSE]),
                                   !.globalWorker = Len(ocr.workers) + 1,
                                   !.calls[i].worker = Len(ocr.workers) + 1,
                                   !.calls[i].pc = IF ocr.calls[i].kind = "recognize"
                                                   THEN "recognize" ELSE "done"]
                  ELSE [ocr EXCEPT !.calls[i].pc = "failed"]
        /\ UNCHANGED ocrOthers

(* worker.recognize(tempFilePath) on the worker initWorker returned, after *)
(* the image was saved; a failed save or a terminated worker makes         *)
(* recognize return null.                                                  *)
workerRecognize ==
    \E i \in DOMAIN ocr.calls, saved \in BOOLEAN :
        /\ ocr.calls[i].pc = "recognize"
        /\ ocr' = IF saved /\ ~ocr.workers[ocr.calls[i].worker].terminated
                  THEN [ocr EXCEPT !.calls[i].pc = "done",
                                   !.log = Append(@, [lang |-> ocr.calls[i].lang,
                                                      by |-> ocr.workers[ocr.calls[i].worker].lang])]
                  ELSE [ocr EXCEPT !.calls[i].pc = "failed"]
        /\ UNCHANGED ocrOthers

(* terminate() and reinitialize(lang) up to their first await: with a      *)
(* worker, globalWorker.terminate() is started and awaited.                *)
OcrTerminateCall(kind, lang, after) ==
    /\ Len(ocr.calls) < MaxCalls
    /\ ocr' = IF ocr.globalWorker = 0
              THEN [ocr EXCEPT !.calls = Append(@, [kind |-> kind, pc |-> after,
                                                    lang |-> lang, worker |-> 0])]
              ELSE [ocr EXCEPT !.calls = Append(@, [kind |-> kind, pc |-> "terminating",
                                                    lang |-> lang, worker |-> 0]),
                               !.workers[ocr.globalWorker].terminated = TRUE]
    /\ UNCHANGED ocrOthers

terminate == OcrTerminateCall("terminate", "eng", "done")

reinitialize == \E lang \in Langs : OcrTerminateCall("reinitialize", lang, "createWorker")

(* globalWorker.terminate() has settled: globalWorker = null; terminate    *)
(* returns, reinitialize goes on to createWorker(lang).                    *)
terminated ==
    \E i \in DOMAIN ocr.calls :
        /\ ocr.calls[i].pc = "terminating"
        /\ ocr' = [ocr EXCEPT !.globalWorker = 0,
                              !.calls[i].pc = IF ocr.calls[i].kind = "terminate"
                                              THEN "done" ELSE "createWorker"]
        /\ UNCHANGED ocrOthers

InitOcr ==
    /\ ocr = [globalWorker |-> 0, workers |-> << >>, calls |-> << >>, log |-> << >>]
    /\ NoDrawer /\ NoImage
    /\ lineFrame = Unused /\ display = Unused /\ overlay = Unused /\ release = Unused

NextOcr ==
    \/ recognize
    \/ initWorker
    \/ createWorker
    \/ workerRecognize
    \/ terminate
    \/ reinitialize
    \/ terminated

SpecOcr == InitOcr /\ [][NextOcr]_vars

OnlyRecognizeCalls == \A i \in DOMAIN ocr.calls : ocr.calls[i].kind = "recognize"

(* C16: in every sequence of recognize calls (terminate and reinitialize   *)
(* not called), each recognition is performed by a worker initialised for  *)
(* the language of the call ("eng" when lang is omitted), also when an     *)
(* earlier call used another language.                                     *)
C16_WorkerLanguage ==
    OnlyRecognizeCalls => \A k \in DOMAIN ocr.log : ocr.log[k].by = ocr.log[k].lang

----------------------------------------------------------------------------
(* Display (display/actions.ts).  display.activeWindows is the module's    *)
(* Map from window name to handle, display.windows the windows the system  *)
(* has created (the handle is the index): "open", "closing" once WM_CLOSE  *)
(* was posted to it, "gone" when it has ceased to exist; keys is the       *)
(* pending WM_KEYDOWN of the window's queue (0: none) and pressed records  *)
(* that a key was pressed in it.  imshow is synchronous: while its wait    *)
(* loop runs (pc = "loop") only the loop and the user act.                 *)

MaxWindows == 2   \* windows created in one behaviour
MaxWait == 1      \* largest waitKey, milliseconds
MaxSleep == 1     \* longest time one Bun.sleepSync(1) takes, milliseconds

WindowNames == {"Image", "B"}

KeyCode == 65     \* wParam of the WM_KEYDOWN message (a virtual-key code, never 0)

(* waitKey?: number -- absent, 0, or a positive number of milliseconds.   *)
WaitKeys == { {} } \cup { {k} : k \in 0..MaxWait }

displayOthers == <<drawVars, imageVars, lineFrame, ocr, overlay, release>>

(* Map.get (0: undefined), Map.set, Map.delete on a set of entries.        *)
MapGet(map, name) ==
    IF \E e \in map : e.name = name THEN (CHOOSE e \in map : e.name = name).hwnd ELSE 0

MapSet(map, name, hwnd) ==
    { e \in map : e.name # name } \cup { [name |-> name, hwnd |-> hwnd] }

MapDelete(map, name) == { e \in map : e.name # name }

(* closeWindow(hwnd): WM_CLOSE is posted to the window.                    *)
closeWindow(windows, hwnd) ==
    IF windows[hwnd].state = "open" THEN [windows EXCEPT ![hwnd].state = "closing"]
    ELSE windows

(* destroyWindow(windowName) applied to the display state d.               *)
DestroyWindow(d, name) ==
    IF MapGet(d.activeWindows, name) # 0
    THEN [d EXCEPT !.windows = closeWindow(@, MapGet(d.activeWindows, name)),
                   !.activeWindows = MapDelete(@, name)]
    ELSE d

RECURSIVE DestroyAll(_, _)
DestroyAll(d, names) ==
    IF names = {} THEN d
    ELSE LET name == CHOOSE n \in names : TRUE
         IN  DestroyAll(DestroyWindow(d, name), names \ {name})

(* imshow without the destroyWindow of an already shown name.              *)
ReplaceShown_Keep(d, name) == d

(* if (activeWindows.has(windowName)) destroyWindow(windowName)            *)
ReplaceShown(d, name) ==
    IF \E e \in d.activeWindows : e.name = name THEN DestroyWindow(d, name) ELSE d

NewCall(name, waitKey, hwnd) ==
    [name |-> name, waitKey |-> waitKey, hwnd |-> hwnd, elapsed |-> 0, checked |-> 0,
     entered |-> FALSE]

(* imshow(windowName, img, waitKey) up to the wait loop: created and dc    *)
(* are the outcomes of CreateWindowExW and GetDC.                          *)
imshow ==
    \E name \in WindowNames, waitKey \in WaitKeys, created \in BOOLEAN, dc \in BOOLEAN :
        /\ display.pc = "idle"
        /\ Len(display.windows) < MaxWindows
        /\ LET d1 == ReplaceShown(display, name)
               hwnd == Len(display.windows) + 1
               d2 == [d1 EXCEPT !.windows = Append(@, [name |-> name, state |-> "open",
                                                       keys |-> 0, pressed |-> FALSE]),
                                !.activeWindows = MapSet(@, name, hwnd),
                                !.call = NewCall(name, waitKey, hwnd)]
           IN  display' =
                 IF ~created
                 THEN [d1 EXCEPT !.result = "thrown", !.call = NewCall(name, waitKey, 0)]
                 ELSE IF ~dc THEN [d2 EXCEPT !.result = "thrown"]
                 ELSE IF waitKey = {} THEN [d2 EXCEPT !.result = "returned"]
                 ELSE [d2 EXCEPT !.pc = "loop", !.result = "none", !.lastKeyPressed = 0]
        /\ UNCHANGED displayOthers

(* waitKey > 0 && Date.now() - startTime >= waitKey, with seconds taken    *)
(* for milliseconds.                                                       *)
TimedOut_Seconds(waitKey, elapsed) == waitKey > 0 /\ elapsed >= waitKey * 1000

(* waitKey > 0 && Date.now() - startTime >= waitKey                        *)
TimedOut(waitKey, elapsed) == waitKey > 0 /\ elapsed >= waitKey

(* One iteration of the wait loop: isWindow, the PeekMessageW loop, the    *)
(* two exits and Bun.sleepSync(1), which takes 1..MaxSleep milliseconds.   *)
(* The clock is read only when waitKey > 0.                                *)
imshowLoop ==
    \E sleep \in 1..MaxSleep :
        /\ display.pc = "loop"
        /\ LET c == display.call
               w == display.windows[c.hwnd]
               waitKey == CHOOSE k \in c.waitKey : TRUE
               key == IF w.keys # 0 THEN w.keys ELSE display.lastKeyPressed
               seen == [display EXCEPT !.call.entered = TRUE, !.call.checked = c.elapsed]
               ret == [seen EXCEPT !.pc = "idle", !.result = "returned"]
           IN  display' =
                 IF w.state = "gone"
                 THEN [ret EXCEPT !.activeWindows = MapDelete(@, c.name)]
                 ELSE IF key # 0
                 THEN [ret EXCEPT !.windows[c.hwnd].keys = 0, !.lastKeyPressed = key]
                 ELSE IF TimedOut(waitKey, c.elapsed) THEN ret
                 ELSE IF waitKey > 0 THEN [seen EXCEPT !.call.elapsed = @ + sleep]
                 ELSE seen
        /\ UNCHANGED displayOthers

destroyWindow ==
    \E name \in WindowNames :
        /\ display.pc = "idle"
        /\ display' = DestroyWindow(display, name)
        /\ UNCHANGED displayOthers

destroyAllWindows ==
    /\ display.pc = "idle"
    /\ display' = DestroyAll(display, { e.name : e \in display.activeWindows })
    /\ UNCHANGED displayOthers

(* The user presses a key in a window.                                     *)
keyDown ==
    \E hwnd \in DOMAIN display.windows :
        /\ display.windows[hwnd].state # "gone"
        /\ display.windows[hwnd].keys = 0
        /\ display' = [display EXCEPT !.windows[hwnd].keys = KeyCode,
                                      !.windows[hwnd].pressed = TRUE]
        /\ UNCHANGED displayOthers

(* A window ceases to exist (closed by the user or by the system).         *)
windowGone ==
    \E hwnd \in DOMAIN display.windows :
        /\ display.windows[hwnd].state # "gone"
        /\ display' = [display EXCEPT !.windows[hwnd].state = "gone"]
        /\ UNCHANGED displayOthers

InitDisplay ==
    /\ display = [pc |-> "idle", activeWindows |-> {}, windows |-> << >>,
                  lastKeyPressed |-> 0, result |-> "none",
                  call |-> NewCall("Image", {}, 0)]
    /\ NoDrawer /\ NoImage
    /\ lineFrame = Unused /\ ocr = Unused /\ overlay = Unused /\ release = Unused

NextDisplay ==
    \/ imshow
    \/ imshowLoop
    \/ destroyWindow
    \/ destroyAllWindows
    \/ keyDown
    \/ windowGone

SpecDisplay == InitDisplay /\ [][NextDisplay]_vars

(* The loop is not suspended forever: the call is synchronous.             *)
SpecDisplayFair == SpecDisplay /\ WF_vars(imshowLoop)

ShowReturned == display.pc = "idle" /\ display.result = "returned"

(* waitKey undefined: returned after painting, the loop never entered.     *)
ShowNoWait == ShowReturned /\ display.call.waitKey = {} => ~display.call.entered

(* waitKey 0: returned only after a key was pressed in the window or the   *)
(* window ceased to exist.                                                 *)
ShowWaitsForKey ==
    ShowReturned /\ display.call.waitKey = {0} =>
        \/ display.windows[display.call.hwnd].pressed
        \/ display.windows[display.call.hwnd].state = "gone"

(* waitKey > 0: the loop is left at the first check made once waitKey      *)
(* milliseconds have elapsed, so at most one sleep later.                  *)
ShowTimeLimit ==
    \A k \in 1..MaxWait :
        display.call.waitKey = {k} =>
            /\ display.pc = "loop" /\ display.call.entered => display.call.checked < k
            /\ display.call.elapsed < k + MaxSleep

(* At most one window is registered per name, it is the last one shown     *)
(* under that name, and every other window was closed: WM_CLOSE posted, or *)
(* it no longer exists.                                                    *)
OneWindowPerName ==
    /\ \A e1, e2 \in display.activeWindows : e1.name = e2.name => e1 = e2
    /\ \A e \in display.activeWindows :
          /\ display.windows[e.hwnd].name = e.name
          /\ \A h \in DOMAIN display.windows : display.windows[h].name = e.name => h <= e.hwnd
    /\ \A h \in DOMAIN display.windows :
          display.windows[h].state = "open" =>
              [name |-> display.windows[h].name, hwnd |-> h] \in display.activeWindows

(* C17: show(name, waitKey) returns right after painting when waitKey is   *)
(* undefined, only after a key press in the window or the window's end     *)
(* when waitKey is 0, and at the latest once waitKey milliseconds have     *)
(* elapsed when waitKey > 0; at most one window is registered per name, a  *)
(* shown name's previous window being closed and replaced.                 *)
C17_ShowWaitKey ==
    /\ [](ShowNoWait /\ ShowWaitsForKey /\ ShowTimeLimit /\ OneWindowPerName)
    /\ (display.pc = "loop" /\ display.call.waitKey \notin { {}, {0} }) ~> ShowReturned

(* A window was replaced by a second show of its name, which waited for a  *)
(* key and returned; a timed show had returned before.                     *)
C17_Witness ==
    /\ ShowReturned
    /\ display.call.waitKey = {0}
    /\ display.call.entered
    /\ display.windows[display.call.hwnd].state = "open"
    /\ \E h \in DOMAIN display.windows :
          /\ h < display.call.hwnd
          /\ display.windows[h].name = display.call.name
          /\ display.windows[h].state = "closing"

----------------------------------------------------------------------------
(* Overlay singleton (winput/src/index.ts, overlay/src/overlay-window.ts). *)
(* overlay.window is this.window (0: null, else the index of the           *)
(* OverlayWindow in overlay.objs), overlay.pens is this.pens (indices into *)
(* overlay.penObjs), overlay.initialized is this._isInitialized.  An       *)
(* OverlayWindow has hwnd and hdc (FALSE: null); ok, destroyed and os (the *)
(* system's window: "none", "shown", "hidden") record what happened to it. *)
(* overlay.creations counts the successful creations since the last        *)
(* destroy and overlay.last describes the last call.                       *)

MaxPens == 2       \* pens created in one behaviour
MaxCreates == 3    \* OverlayWindow objects constructed in one behaviour

(* How OverlayWindow.create() ends: true; window.create returned null;     *)
(* GetDC returned null; an exception before the window was created.        *)
CreateOutcomes == {"ok", "noHwnd", "noDC", "threw"}

overlayOthers == <<drawVars, imageVars, lineFrame, ocr, display, release>>

(* OverlayWindow.destroy(): ReleaseDC, hideWindow, hwnd = null.            *)
OverlayWindowDestroy(obj) ==
    [obj EXCEPT !.hdc = FALSE, !.hwnd = FALSE,
                !.os = IF obj.hwnd THEN "hidden" ELSE @]

(* new OverlayWindow(options).create()                                     *)
OverlayWindowCreate(outcome) ==
    LET new == [hwnd |-> FALSE, hdc |-> FALSE, os |-> "none", ok |-> FALSE, destroyed |-> FALSE]
    IN  CASE outcome = "ok"     -> [new EXCEPT !.hwnd = TRUE, !.hdc = TRUE, !.os = "shown", !.ok = TRUE]
          [] outcome = "noHwnd" -> new
          [] outcome = "noDC"   -> OverlayWindowDestroy([new EXCEPT !.hwnd = TRUE, !.os = "shown"])
          [] outcome = "threw"  -> OverlayWindowDestroy(new)

(* ensureInitialized creating a window on every call.                      *)
AlreadyInitialized_Never(o) == FALSE

(* if (this._isInitialized && this.window) return true                     *)
AlreadyInitialized(o) == o.initialized /\ o.window # 0

(* ensureInitialized(options): the overlay after the call, what it         *)
(* returned and whether it constructed a window.                           *)
ensureInitialized(o, outcome) ==
    IF AlreadyInitialized(o)
    THEN [o |-> o, success |-> TRUE, attempted |-> FALSE]
    ELSE [o |-> [o EXCEPT !.objs = Append(@, OverlayWindowCreate(outcome)),
                          !.window = Len(o.objs) + 1,
                          !.initialized = IF outcome = "ok" THEN TRUE ELSE @,
                          !.creations = IF outcome = "ok" THEN @ + 1 ELSE @],
          success |-> outcome = "ok", attempted |-> TRUE]

OverlayLast(op, o, e) ==
    [op |-> op, threw |-> ~e.success, attempted |-> e.attempted,
     wasInitialized |-> o.initialized /\ o.window # 0 /\ o.objs[o.window].ok
                        /\ ~o.objs[o.window].destroyed,
     events |-> << >>, pens |-> << >>, window |-> o.window]

OverlaySimple(op, o) == OverlayLast(op, o, [success |-> TRUE, attempted |-> FALSE])

CanEnsure == AlreadyInitialized(overlay) \/ Len(overlay.objs) < MaxCreates

createPen ==
    \E outcome \in CreateOutcomes :
        /\ CanEnsure
        /\ Len(overlay.penObjs) < MaxPens
        /\ LET e == ensureInitialized(overlay, outcome)
           IN  overlay' =
                 IF ~e.success
                 THEN [e.o EXCEPT !.last = OverlayLast("createPen", overlay, e)]
                 ELSE [e.o EXCEPT !.penObjs = Append(@, [window |-> e.o.window, destroyed |-> FALSE]),
                                  !.pens = Append(@, Len(overlay.penObjs) + 1),
                                  !.last = OverlayLast("createPen", overlay, e)]
        /\ UNCHANGED overlayOthers

show ==
    \E outcome \in CreateOutcomes :
        /\ CanEnsure
        /\ LET e == ensureInitialized(overlay, outcome)
           IN  overlay' =
                 IF ~e.success
                 THEN [e.o EXCEPT !.last = OverlayLast("show", overlay, e)]
                 ELSE [e.o EXCEPT !.objs[e.o.window].os = IF e.o.objs[e.o.window].hwnd
                                                          THEN "shown" ELSE @,
                                  !.last = OverlayLast("show", overlay, e)]
        /\ UNCHANGED overlayOthers

hide ==
    /\ overlay' =
         IF overlay.window # 0
         THEN [overlay EXCEPT !.objs[overlay.window].os = IF overlay.objs[overlay.window].hwnd
                                                          THEN "hidden" ELSE @,
                              !.last = OverlaySimple("hide", overlay)]
         ELSE [overlay EXCEPT !.last = OverlaySimple("hide", overlay)]
    /\ UNCHANGED overlayOthers

(* clear() and update() paint and pump messages: no field changes.         *)
clear ==
    /\ overlay' = [overlay EXCEPT !.last = OverlaySimple("clear", overlay)]
    /\ UNCHANGED overlayOthers

update ==
    /\ overlay' = [overlay EXCEPT !.last = OverlaySimple("update", overlay)]
    /\ UNCHANGED overlayOthers

(* for (const pen of this.pens) pen.destroy()                              *)
RECURSIVE DestroyPens(_, _)
DestroyPens(penObjs, pens) ==
    IF pens = << >> THEN penObjs
    ELSE DestroyPens([penObjs EXCEPT ![Head(pens)].destroyed = TRUE], Tail(pens))

destroy ==
    /\ overlay' =
         [overlay EXCEPT
            !.penObjs = DestroyPens(@, overlay.pens),
            !.pens = << >>,
            !.objs = IF overlay.window # 0
                     THEN [@ EXCEPT ![overlay.window] =
                              [OverlayWindowDestroy(@) EXCEPT !.destroyed = TRUE]]
                     ELSE @,
            !.window = 0,
            !.initialized = FALSE,
            !.creations = 0,
            !.last = [OverlaySimple("destroy", overlay) EXCEPT
                         !.pens = overlay.pens,
                         !.events = [i \in 1..Len(overlay.pens) |-> "pen"]
                                    \o (IF overlay.window # 0 THEN <<"window">> ELSE << >>)]]
    /\ UNCHANGED overlayOthers

InitOverlay ==
    /\ overlay = [window |-> 0, pens |-> << >>, initialized |-> FALSE,
                  objs |-> << >>, penObjs |-> << >>, creations |-> 0,
                  last |-> [op |-> "new", threw |-> FALSE, attempted |-> FALSE,
                            wasInitialized |-> FALSE, events |-> << >>, pens |-> << >>,
                            window |-> 0]]
    /\ NoDrawer /\ NoImage
    /\ lineFrame = Unused /\ ocr = Unused /\ display = Unused /\ release = Unused

NextOverlay ==
    \/ show
    \/ createPen
    \/ hide
    \/ clear
    \/ update
    \/ destroy

SpecOverlay == InitOverlay /\ [][NextOverlay]_vars

(* The overlay holds a successfully created window not destroyed since.    *)
HoldsWindow ==
    /\ overlay.window # 0
    /\ overlay.objs[overlay.window].ok
    /\ ~overlay.objs[overlay.window].destroyed

(* isInitialized() is true exactly when a created window is held.          *)
InitializedIffWindow == overlay.initialized <=> HoldsWindow

(* show/createPen construct a window only when none is initialised, at     *)
(* most one is created between two destroys, and they throw exactly when   *)
(* the creation fails.                                                     *)
CreatesOnlyWhenNeeded ==
    /\ overlay.creations <= 1
    /\ overlay.last.op \in {"show", "createPen"} =>
          /\ overlay.last.attempted <=> ~overlay.last.wasInitialized
          /\ overlay.last.threw <=> ~HoldsWindow
          /\ overlay.last.threw => overlay.last.attempted

(* destroy() destroyed every pen created since the last destroy, then the  *)
(* window; afterwards isInitialized() is false and getWindow() null.       *)
DestroyCleansUp ==
    /\ overlay.pens = << >> =>
          \A p \in DOMAIN overlay.penObjs : overlay.penObjs[p].destroyed
    /\ \A p \in DOMAIN overlay.penObjs :
          ~overlay.penObjs[p].destroyed =>
              /\ \E i \in DOMAIN overlay.pens : overlay.pens[i] = p
              /\ overlay.penObjs[p].window = overlay.window
    /\ overlay.last.op = "destroy" =>
          /\ ~overlay.initialized
          /\ overlay.window = 0
          /\ \A p \in DOMAIN overlay.penObjs : overlay.penObjs[p].destroyed
          /\ \A i \in DOMAIN overlay.last.events :
                overlay.last.events[i] = "window" => i = Len(overlay.last.pens) + 1
          /\ overlay.last.window # 0 =>
                /\ overlay.objs[overlay.last.window].destroyed
                /\ overlay.last.events # << >>
                /\ overlay.last.events[Len(overlay.last.events)] = "window"

----------------------------------------------------------------------------
(* Release script (scripts/release.ts).  release.versions is the version   *)
(* field of each package.json on disk (<<major, minor, patch>>),           *)
(* release.original what it was when the script started; the other fields  *)
(* are the script's variables.  One behaviour is one run of the script,    *)
(* one step per awaited command.                                           *)

MaxPackages == 3   \* package directories that exist (a prefix of PUBLISH_ORDER)

PUBLISH_ORDER == <<"utils", "image", "screen", "keyboard", "mouse", "window", "overlay", "winput">>

BumpTypes == {"patch", "minor", "major"}

(* existsSync(join(PACKAGES_DIR, pkgName, "package.json"))                 *)
PackageExists(i) == i <= MaxPackages

StartVersions == { <<0, 1, 0>>, <<1, 2, 3>> }

bumpVersion(current, type) ==
    CASE type = "major" -> <<current[1] + 1, 0, 0>>
      [] type = "minor" -> <<current[1], current[2] + 1, 0>>
      [] type = "patch" -> <<current[1], current[2], current[3] + 1>>

releaseOthers == <<drawVars, imageVars, lineFrame, ocr, display, overlay>>

(* release() with its command line: an optional bump type and --dry-run.   *)
releaseStart ==
    \E bumpType \in { {} } \cup { {t} : t \in BumpTypes }, dryRun \in BOOLEAN :
        /\ release.pc = "start"
        /\ release' = [release EXCEPT
                         !.bumpType = bumpType,
                         !.dryRun = dryRun,
                         !.versionBackups = << >>,
                         !.packagesToPublish = IF bumpType = {} THEN 1..Len(PUBLISH_ORDER) ELSE {},
                         !.i = 1,
                         !.pc = IF bumpType = {} THEN "publish" ELSE "check"]
        /\ UNCHANGED releaseOthers

(* bumpPackageVersion(pkgName, type) applied to the script state r.        *)
bumpPackageVersion(r, i, type) ==
    [r EXCEPT !.versionBackups = Append(@, [pkg |-> i, originalVersion |-> r.versions[i]]),
              !.versions[i] = bumpVersion(@, type),
              !.packagesToPublish = @ \cup {i}]

(* One iteration of the first loop: needs is needsPublish(...).needs.      *)
checkPackage ==
    \E needs \in BOOLEAN :
        /\ release.pc = "check"
        /\ release.i <= Len(PUBLISH_ORDER)
        /\ LET type == CHOOSE t \in release.bumpType : TRUE
               r == IF PackageExists(release.i) /\ needs
                    THEN bumpPackageVersion(release, release.i, type)
                    ELSE release
           IN  release' = [r EXCEPT !.i = @ + 1]
        /\ UNCHANGED releaseOthers

(* After the first loop: return when nothing is to be published.           *)
checkDone ==
    /\ release.pc = "check"
    /\ release.i > Len(PUBLISH_ORDER)
    /\ release' = IF release.packagesToPublish = {}
                  THEN [release EXCEPT !.pc = "exited", !.exitCode = 0]
                  ELSE [release EXCEPT !.pc = "publish", !.i = 1]
    /\ UNCHANGED releaseOthers

(* One iteration of the publish loop: published is the result of           *)
(* `npm publish`; skipped packages, missing directories and dry runs       *)
(* count as success.                                                       *)
publishPackage ==
    \E published \in BOOLEAN :
        /\ release.pc = "publish"
        /\ release.i <= Len(PUBLISH_ORDER)
        /\ LET skipped == release.bumpType # {} /\ release.i \notin release.packagesToPublish
               success == skipped \/ ~PackageExists(release.i) \/ release.dryRun \/ published
           IN  release' = IF success
                          THEN [release EXCEPT !.i = @ + 1]
                          ELSE [release EXCEPT !.allSuccess = FALSE, !.pc = "commit"]
        /\ UNCHANGED releaseOthers

publishDone ==
    /\ release.pc = "publish"
    /\ release.i > Len(PUBLISH_ORDER)
    /\ release' = [release EXCEPT !.pc = "commit"]
    /\ UNCHANGED releaseOthers

(* if (bumpType && !dryRun): git add -A, git commit, git push; then the    *)
(* final message and process.exit(1) when a publish failed.                *)
commitAndExit ==
    \E commit \in BOOLEAN :
        /\ release.pc = "commit"
        /\ release' = [release EXCEPT
                         !.committed = release.bumpType # {} /\ ~release.dryRun /\ commit,
                         !.pc = "exited",
                         !.exitCode = IF release.allSuccess THEN 0 ELSE 1]
        /\ UNCHANGED releaseOthers

InitRelease ==
    /\ \E versions \in [1..MaxPackages -> StartVersions] :
          release = [pc |-> "start", bumpType |-> {}, dryRun |-> FALSE,
                     versions |-> versions, original |-> versions,
                     versionBackups |-> << >>, packagesToPublish |-> {},
                     i |-> 1, allSuccess |-> TRUE, committed |-> FALSE, exitCode |-> 0]
    /\ NoDrawer /\ NoImage
    /\ lineFrame = Unused /\ ocr = Unused /\ display = Unused /\ overlay = Unused

NextRelease ==
    \/ releaseStart
    \/ checkPackage
    \/ checkDone
    \/ publishPackage
    \/ publishDone
    \/ commitAndExit

SpecRelease == InitRelease /\ [][NextRelease]_vars

(* C19: in a run with a bump type in which publishing a package failed,    *)
(* every package.json version bumped during the run is back at its         *)
(* original version when the script exits.                                 *)
C19_RollbackOnFailure ==
    release.pc = "exited" /\ release.bumpType # {} /\ ~release.allSuccess =>
        \A k \in DOMAIN release.versionBackups :
            release.versions[release.versionBackups[k].pkg]
                = release.versionBackups[k].originalVersion

----------------------------------------------------------------------------
(* The geometry of the primitives.  One primitive is called once, with     *)
(* the default colour, on a zeroed image large enough to hold the shapes   *)
(* and small enough to clip some of them; lastOp records the call, its     *)
(* arguments and the setPixel calls it made.                               *)

ShapeDims == <<16, 16>>

ShapeRun(op, args, calls) ==
    /\ lastOp = [op |-> "new"]
    /\ heap' = [heap EXCEPT ![imageData.buffer] = PaintAll(Deref(imageData), calls, Green)]
    /\ lastOp' = [op |-> op, args |-> args, calls |-> calls]
    /\ UNCHANGED <<imageData, orig, painted, imageVars, sysVars>>

MaxPoly == 2     \* polygon vertices: x in -1..MaxPoly-1, y in -1..MaxPoly

PolyGrid == (-1..(MaxPoly - 1)) \X (-1..MaxPoly)

(* Vertex lists: every triangle of the grid, some quadrilaterals and       *)
(* pentagons (a bow tie, a dart, a notched box), and the short lists.      *)
PolygonInputs ==
    { <<p, q, r>> : p \in PolyGrid, q \in PolyGrid, r \in PolyGrid }
      \cup { << <<0, 0>>, <<6, 6>>, <<6, 0>>, <<0, 6>> >>,
             << <<0, 0>>, <<8, 2>>, <<0, 4>>, <<3, 2>> >>,
             << <<1, 1>>, <<9, 1>>, <<9, 7>>, <<5, 2>>, <<1, 7>> >>,
             << <<12, 10>>, <<18, 10>>, <<18, 17>>, <<15, 12>>, <<12, 17>> >> }

ShortPolygons == { << >>, << <<1, 1>> >>, << <<1, 1>>, <<4, 3>> >> }

(* drawPolygon(img, points, {filled: true})                                *)
fillPolygonCall ==
    \E points \in PolygonInputs \cup ShortPolygons :
        ShapeRun("fillPolygon", points, drawPolygon(points, 2, TRUE))

(* drawPolygon(img, points) with fewer than 2 points                       *)
outlinePolygonCall ==
    \E points \in { q \in ShortPolygons : Len(q) < 2 } :
        ShapeRun("outlinePolygon", points, drawPolygon(points, 2, FALSE))

MaxArc == 4      \* arc radii are drawn from 0..MaxArc

(* Start and end angles in units of pi/4, below 0 and above 2*pi included. *)
ArcAngles == -2..9

ShapeCentres == { <<8, 8>>, <<1, 2>> }

(* drawArc(img, centerX, centerY, radius, startAngle, endAngle,            *)
(* {thickness: 1})                                                         *)
drawArcCall ==
    \E c \in ShapeCentres, radius \in 0..MaxArc, startAngle \in ArcAngles,
       endAngle \in ArcAngles, tie \in BOOLEAN :
        ShapeRun("drawArc", <<c[1], c[2], radius, startAngle, endAngle, tie>>,
                 drawArc(c[1], c[2], radius, startAngle, endAngle, 1, tie))

MaxFill == 3     \* widths, heights and radii of the filled shapes are drawn from 0..MaxFill

FillCorners == {-1, 3, 14}

fillRectangleCall ==
    \E x \in FillCorners, y \in FillCorners, width \in 0..MaxFill, height \in 0..MaxFill :
        ShapeRun("fillRectangle", <<x, y, width, height>>, fillRectangle(x, y, width, height))

fillCircleCall ==
    \E c \in ShapeCentres, radius \in 0..MaxFill :
        ShapeRun("fillCircle", <<c[1], c[2], radius>>, fillCircle(c[1], c[2], radius))

(* drawEllipse(img, centerX, centerY, radiusX, radiusY, {filled: true})    *)
fillEllipseCall ==
    \E c \in ShapeCentres, radiusX \in 0..MaxFill, radiusY \in 0..MaxFill :
        ShapeRun("fillEllipse", <<c[1], c[2], radiusX, radiusY>>,
                 drawEllipse(c[1], c[2], radiusX, radiusY, 1, TRUE))

MaxCircle == 6   \* circle radii are drawn from 0..MaxCircle

(* drawCircle(img, centerX, centerY, radius) with the default thickness 1  *)
drawCircleCall ==
    \E c \in ShapeCentres, radius \in 0..MaxCircle :
        ShapeRun("drawCircle", <<c[1], c[2], radius>>, drawCircle(c[1], c[2], radius, 1))

InitShape ==
    /\ heap = << Zeros(ShapeDims[1] * ShapeDims[2] * 4) >>
    /\ imageData = [width |-> ShapeDims[1], height |-> ShapeDims[2], buffer |-> 1]
    /\ orig = Zeros(ShapeDims[1] * ShapeDims[2] * 4)
    /\ painted = << >>
    /\ lastOp = [op |-> "new"]
    /\ NoImage
    /\ NoSys

NextShape ==
    \/ fillPolygonCall
    \/ outlinePolygonCall
    \/ drawArcCall
    \/ fillRectangleCall
    \/ fillCircleCall
    \/ fillEllipseCall
    \/ drawCircleCall

SpecShape == InitShape /\ [][NextShape]_vars

(* The edges (by the index of their first vertex) that cross row y: the    *)
(* row lies in the half-open range of the edge's y extent.                 *)
CrossingEdges(points, y) ==
    { i \in 1..Len(points) :
        LET y1 == points[i][2]
            y2 == points[(i % Len(points)) + 1][2]
        IN  Min({y1, y2}) <= y /\ y < Max({y1, y2}) }

(* Where edge i meets row y, as a fraction with a positive denominator.    *)
EdgeAt(points, i, y) ==
    LET p1 == points[i]
        p2 == points[(i % Len(points)) + 1]
        den == p2[2] - p1[2]
        num == p1[1] * den + (y - p1[2]) * (p2[1] - p1[1])
    IN  IF den > 0 THEN <<num, den>> ELSE <<-num, -den>>

(* Edge e's intersection is the k-th smallest of row y's intersections.    *)
IsKth(points, y, e, k) ==
    LET E == CrossingEdges(points, y)
        v == EdgeAt(points, e, y)
        below == Cardinality({ i \in E : FracLess(EdgeAt(points, i, y), v) })
        upto == Cardinality({ i \in E : ~FracLess(v, EdgeAt(points, i, y)) })
    IN  below < k /\ k <= upto

(* The pairs (1st-2nd, 3rd-4th, ...) of row y's sorted intersections, as   *)
(* pairs of fractions.                                                     *)
RowPairs(points, y) ==
    LET E == CrossingEdges(points, y)
    IN  { <<EdgeAt(points, a, y), EdgeAt(points, b, y)>> :
            <<a, b>> \in { ab \in E \X E :
                \E k \in 1..Cardinality(E) :
                    /\ k % 2 = 1
                    /\ IsKth(points, y, ab[1], k)
                    /\ IsKth(points, y, ab[2], k + 1) } }

FilledPolygonDone == lastOp.op = "fillPolygon" /\ Len(lastOp.args) >= 3

ShortPolygonPaintsNothing ==
    /\ lastOp.op = "fillPolygon" /\ Len(lastOp.args) < 3 => PaintedPixels = {}
    /\ lastOp.op = "outlinePolygon" => PaintedPixels = {}

(* C21 as stated: a filled polygon of at least 3 vertices paints, in each  *)
(* row y, exactly the pixels x lying between the two intersections of a    *)
(* pair (1st-2nd, 3rd-4th, ...) of the row's sorted edge intersections,    *)
(* and nothing else; shorter vertex lists paint nothing.                   *)
C21_FillBetweenPairs ==
    /\ ShortPolygonPaintsNothing
    /\ FilledPolygonDone =>
          PaintedPixels =
              UNION { LET pairs == RowPairs(lastOp.args, y)
                      IN  { <<x, y>> : x \in { c \in 0..(imageData.width - 1) :
                              \E pr \in pairs :
                                  /\ pr[1][1] <= c * pr[1][2]
                                  /\ c * pr[2][2] <= pr[2][1] } } :
                      y \in 0..(imageData.height - 1) }

(* C21 amended: a filled polygon of at least 3 vertices paints, in each    *)
(* row y, exactly the pixels from floor(a) to ceil(b) for each pair (a, b) *)
(* of the row's sorted edge intersections (1st-2nd, 3rd-4th, ...), and     *)
(* nothing else; shorter vertex lists paint nothing.                       *)
C21_FillRoundedPairs ==
    /\ ShortPolygonPaintsNothing
    /\ FilledPolygonDone =>
          PaintedPixels =
              UNION { LET pairs == RowPairs(lastOp.args, y)
                      IN  { <<x, y>> : x \in { c \in 0..(imageData.width - 1) :
                              \E pr \in pairs :
                                  /\ pr[1][1] < (c + 1) * pr[1][2]
                                  /\ (c - 1) * pr[2][2] < pr[2][1] } } :
                      y \in 0..(imageData.height - 1) }

(* A notched box was filled: its middle row has four intersections and an  *)
(* unpainted gap between the second and the third.                         *)
C21_Witness ==
    /\ FilledPolygonDone
    /\ Len(lastOp.args) = 5
    /\ \E y \in 0..(imageData.height - 1) :
          /\ Cardinality(CrossingEdges(lastOp.args, y)) = 4
          /\ \E x \in 1..(imageData.width - 2) :
                /\ <<x, y>> \notin PaintedPixels
                /\ <<x - 1, y>> \in PaintedPixels
                /\ \E x2 \in (x + 1)..(imageData.width - 1) : <<x2, y>> \in PaintedPixels

(* The direction of the angle k * pi/4, k in 0..7.                         *)
Dir(k) ==
    << <<1, 0>>, <<1, 1>>, <<0, 1>>, <<-1, 1>>,
       <<-1, 0>>, <<-1, -1>>, <<0, -1>>, <<1, -1>> >>[k + 1]

(* An angle in units of pi/4 normalised to [0, 2*pi).                      *)
Normalised(k) == CHOOSE n \in 0..7 : \E j \in -4..4 : k = n + 8 * j

(* Whether the direction v has its angle in [0, pi).                       *)
UpperHalf(v) == v[2] > 0 \/ (v[2] = 0 /\ v[1] > 0)

(* The angle of the offset v, in [0, 2*pi), compared with k * pi/4:        *)
(* -1 below, 0 equal, 1 above.                                             *)
AngleCmp(v, k) ==
    LET d == Dir(k)
        turn == v[1] * d[2] - v[2] * d[1]
    IN  IF UpperHalf(v) /\ ~UpperHalf(d) THEN -1
        ELSE IF ~UpperHalf(v) /\ UpperHalf(d) THEN 1
        ELSE IF turn > 0 THEN -1 ELSE IF turn < 0 THEN 1 ELSE 0

(* The offset v lies in the range from start to end (normalised): in       *)
(* [start, end], or in [start, 2*pi) or [0, end] when start > end.  An     *)
(* angle that coincides with a bound is inside when the comparison of the  *)
(* doubles says so (tie).                                                  *)
InArc(v, start, end, tie) ==
    LET ge == AngleCmp(v, start) = 1 \/ (AngleCmp(v, start) = 0 /\ tie)
        le == AngleCmp(v, end) = -1 \/ (AngleCmp(v, end) = 0 /\ tie)
    IN  IF start <= end THEN ge /\ le ELSE ge \/ le

(* The in-image pixels drawCircle paints for a centre and a radius.        *)
CirclePixels(cx, cy, r) ==
    Range(drawCircle(cx, cy, r, 1)) \cap PixelsOf(imageData.width, imageData.height)

(* The points of the circle whose angle lies in the range; the angle of    *)
(* the zero offset (radius 0) is taken as zero.                            *)
ArcExpected(a, zeroAngles) ==
    { q \in CirclePixels(a[1], a[2], a[3]) :
        LET v == <<q[1] - a[1], q[2] - a[2]>>
        IN  IF v = <<0, 0>>
            THEN \E k \in zeroAngles : InArc(Dir(k), Normalised(a[4]), Normalised(a[5]), a[6])
            ELSE InArc(v, Normalised(a[4]), Normalised(a[5]), a[6]) }

(* C22 as stated: drawArc with thickness 1 paints exactly the points of    *)
(* the midpoint circle whose angle, normalised to [0, 2*pi), lies in the   *)
(* range from the normalised start to the normalised end angle ([start,    *)
(* end], or [start, 2*pi) and [0, end] when start > end), and no pixel     *)
(* that drawCircle with the same centre and radius would not paint.        *)
C22_ArcAnyRadius ==
    lastOp.op = "drawArc" =>
        /\ PaintedPixels \subseteq CirclePixels(lastOp.args[1], lastOp.args[2], lastOp.args[3])
        /\ PaintedPixels = ArcExpected(lastOp.args, {0})

(* C22 amended: the same for every radius >= 1; with radius 0 the centre   *)
(* pixel is painted when the angle 0 or the angle pi lies in the range     *)
(* (the point is tested with the offsets 0 and -0).                        *)
C22_ArcIsCircleInRange ==
    lastOp.op = "drawArc" =>
        /\ PaintedPixels \subseteq CirclePixels(lastOp.args[1], lastOp.args[2], lastOp.args[3])
        /\ PaintedPixels = ArcExpected(lastOp.args, {0, 4})

(* An arc given with a negative start angle wraps around: it is painted    *)
(* on both sides of angle 0 and leaves a part of its circle unpainted.     *)
C22_Witness ==
    /\ lastOp.op = "drawArc"
    /\ lastOp.args[3] = 3
    /\ lastOp.args[4] < 0
    /\ Normalised(lastOp.args[4]) > Normalised(lastOp.args[5])
    /\ <<lastOp.args[1] + 3, lastOp.args[2]>> \in PaintedPixels
    /\ <<lastOp.args[1] + 2, lastOp.args[2] + 2>> \in PaintedPixels
    /\ <<lastOp.args[1] + 2, lastOp.args[2] - 2>> \in PaintedPixels
    /\ <<lastOp.args[1] - 3, lastOp.args[2]>> \notin PaintedPixels

(* The in-image pixels of the box [x1, x2] x [y1, y2].                     *)
BoxPixels(x1, x2, y1, y2) ==
    { q \in PixelsOf(imageData.width, imageData.height) :
        x1 <= q[1] /\ q[1] <= x2 /\ y1 <= q[2] /\ q[2] <= y2 }

FillRectangleExact ==
    lastOp.op = "fillRectangle" =>
        LET a == lastOp.args
        IN  PaintedPixels = BoxPixels(a[1], a[1] + a[3] - 1, a[2], a[2] + a[4] - 1)

FillCircleExact ==
    lastOp.op = "fillCircle" =>
        LET a == lastOp.args
        IN  PaintedPixels =
                { q \in BoxPixels(a[1] - a[3], a[1] + a[3], a[2] - a[3], a[2] + a[3]) :
                    (q[1] - a[1]) * (q[1] - a[1]) + (q[2] - a[2]) * (q[2] - a[2])
                        <= a[3] * a[3] }

(* dx*dx/(rx*rx) + dy*dy/(ry*ry) <= 1 in exact arithmetic, multiplied by   *)
(* rx*rx*ry*ry so that it is defined for a zero radius too: a degenerate   *)
(* ellipse is a segment, or the centre alone.                              *)
FillEllipseExact ==
    lastOp.op = "fillEllipse" =>
        LET a == lastOp.args
        IN  PaintedPixels =
                { q \in BoxPixels(a[1] - a[3], a[1] + a[3], a[2] - a[4], a[2] + a[4]) :
                    (q[1] - a[1]) * (q[1] - a[1]) * a[4] * a[4]
                      + (q[2] - a[2]) * (q[2] - a[2]) * a[3] * a[3]
                        <= a[3] * a[3] * a[4] * a[4] }

FilledShapesExactPositive ==
    /\ FillRectangleExact
    /\ FillCircleExact
    /\ (lastOp.op = "fillEllipse" /\ (lastOp.args[3] = 0 \/ lastOp.args[4] = 0))
          \/ FillEllipseExact

----------------------------------------------------------------------------
(* C24: for every position, width >= 1, height >= 1 and thickness >= 1     *)
(* (the default 2 and a thickness larger than the width or the height      *)
(* included), drawRectangle changes no pixel outside the rectangle's box   *)
(* x <= px < x + width, y <= py < y + height.                              *)
C24_RectangleStaysInBox ==
    (lastOp.op = "drawRectangle" /\ lastOp.args[3] >= 1 /\ lastOp.args[4] >= 1) =>
        \A q \in PixelsOf(imageData.width, imageData.height) :
            \/ /\ lastOp.args[1] <= q[1] /\ q[1] < lastOp.args[1] + lastOp.args[3]
               /\ lastOp.args[2] <= q[2] /\ q[2] < lastOp.args[2] + lastOp.args[4]
            \/ PixelBytes(heap[imageData.buffer], imageData.width, q[1], q[2])
                   = PixelBytes(orig, imageData.width, q[1], q[2])

(* The same for the calls whose thickness exceeds neither the width nor    *)
(* the height.                                                             *)
RectangleStaysInBoxThin ==
    (lastOp.op = "drawRectangle" /\ lastOp.args[5] > lastOp.args[3])
        \/ (lastOp.op = "drawRectangle" /\ lastOp.args[5] > lastOp.args[4])
        \/ C24_RectangleStaysInBox

----------------------------------------------------------------------------
(* The eight reflections of a pixel about a centre: the octant symmetries. *)
Reflections(cx, cy, q) ==
    LET dx == q[1] - cx
        dy == q[2] - cy
    IN  { <<cx + sx * dx, cy + sy * dy>> : sx \in {-1, 1}, sy \in {-1, 1} }
            \cup { <<cx + sx * dy, cy + sy * dx>> : sx \in {-1, 1}, sy \in {-1, 1} }

CircleDone == lastOp.op = "drawCircle"

(* Every reflection of a painted pixel is painted, unless it lies outside  *)
(* the image.                                                              *)
CircleSymmetric ==
    CircleDone =>
        \A q \in PaintedPixels :
            Reflections(lastOp.args[1], lastOp.args[2], q)
                \cap PixelsOf(imageData.width, imageData.height) \subseteq PaintedPixels

(* The four axis points are painted, unless they lie outside the image.    *)
CircleAxisPoints ==
    CircleDone =>
        LET cx == lastOp.args[1]
            cy == lastOp.args[2]
            r == lastOp.args[3]
        IN  { <<cx + r, cy>>, <<cx - r, cy>>, <<cx, cy + r>>, <<cx, cy - r>> }
                \cap PixelsOf(imageData.width, imageData.height) \subseteq PaintedPixels

(* |sqrt(dx*dx + dy*dy) - r| < 1, in integers.                             *)
CircleNearRadius ==
    CircleDone =>
        \A q \in PaintedPixels :
            LET r == lastOp.args[3]
                d2 == (q[1] - lastOp.args[1]) * (q[1] - lastOp.args[1])
                          + (q[2] - lastOp.args[2]) * (q[2] - lastOp.args[2])
            IN  /\ d2 < (r + 1) * (r + 1)
                /\ r = 0 \/ d2 > (r - 1) * (r - 1)

(* drawCirclePoints is called once before the loop and once per iteration, *)
(* eight setPixel calls each time.                                         *)
CircleLoopBound ==
    CircleDone => Len(lastOp.calls) <= 8 * (lastOp.args[3] + 1)

(* C25: drawCircle with thickness 1 and an integer radius r >= 0 paints a  *)
(* set that is symmetric under the 8 octant reflections about the centre,  *)
(* contains the four axis points, keeps every painted pixel at a distance  *)
(* from the centre that differs from r by less than 1, and ends after at   *)
(* most r + 1 steps.                                                       *)
C25_CircleShape ==
    CircleSymmetric /\ CircleAxisPoints /\ CircleNearRadius /\ CircleLoopBound

(* A circle of radius at least 3 drawn entirely inside the image.          *)
C25_Witness ==
    /\ CircleDone
    /\ lastOp.args[3] >= 3
    /\ Cardinality(PaintedPixels) >= 16
    /\ <<lastOp.args[1] + lastOp.args[3], lastOp.args[2]>> \in PaintedPixels
    /\ <<lastOp.args[1], lastOp.args[2] - lastOp.args[3]>> \in PaintedPixels

----------------------------------------------------------------------------
(* The rows the filled branch scans: floor(minY) .. ceil(maxY).            *)
ScanRows(points) == MinY(points)..MaxY(points)

(* Every scanned row has an even number of intersections, so the pairing   *)
(* guard i + 1 < length never drops one.                                   *)
EvenIntersections ==
    FilledPolygonDone =>
        \A y \in ScanRows(lastOp.args) : Len(Intersections(lastOp.args, y)) % 2 = 0

(* Every intersection is computed with a non-zero divisor p2.y - p1.y.     *)
NoZeroDivisor ==
    FilledPolygonDone =>
        \A y \in ScanRows(lastOp.args) :
            \A k \in 1..Len(Intersections(lastOp.args, y)) :
                Intersections(lastOp.args, y)[k][2] > 0

(* Every setPixel call of the fill, and so every painted pixel, lies in    *)
(* the bounding box of the vertices.                                       *)
FillInBoundingBox ==
    FilledPolygonDone =>
        LET xs == { lastOp.args[i][1] : i \in 1..Len(lastOp.args) }
            ys == { lastOp.args[i][2] : i \in 1..Len(lastOp.args) }
            inBox(q) == /\ \E a \in xs : a <= q[1]
                        /\ \E b \in xs : q[1] <= b
                        /\ \E a \in ys : a <= q[2]
                        /\ \E b \in ys : q[2] <= b
        IN  /\ \A k \in 1..Len(lastOp.calls) : inBox(lastOp.calls[k])
            /\ \A q \in PaintedPixels : inBox(q)

(* C26: in the filled branch of drawPolygon with integer vertices every    *)
(* scanline row has an even number of edge intersections (no intersection  *)
(* is left unpaired, no horizontal edge divides by zero) and every painted *)
(* pixel lies within the bounding box of the vertices.                     *)
C26_EvenCrossingsInBox ==
    EvenIntersections /\ NoZeroDivisor /\ FillInBoundingBox

(* A filled polygon with a horizontal edge and a row crossed four times.   *)
C26_Witness ==
    /\ FilledPolygonDone
    /\ \E i \in 1..Len(lastOp.args) :
           lastOp.args[i][2] = lastOp.args[(i % Len(lastOp.args)) + 1][2]
    /\ \E y \in ScanRows(lastOp.args) : Len(Intersections(lastOp.args, y)) = 4
    /\ PaintedPixels # {}

----------------------------------------------------------------------------
(* Pen (overlay/src/core/ffi-loader.ts) and the GDI objects it handles.    *)
(* overlay.objects are the GDI pens by handle: handle 1 is the pen the     *)
(* device context held before the Pen was constructed, the handles after   *)
(* it are the pens CreatePen returned; alive says the object exists,       *)
(* deletes counts the DeleteObject calls made on the handle, selectedThen  *)
(* whether one of them was made while the device context held the handle.  *)
(* overlay.selected is the pen the device context holds, overlay.hasDC     *)
(* whether window.getDC() returns a context; handle 0 is null.             *)
(* overlay.changed records that setColor or setWidth has been called.      *)

MaxPenCalls == 3   \* setColor, setWidth and drawing calls before destroy()

PenColors == {Green, White}
PenWidths == {-1, 3}
PenDrawings == {"drawLine", "drawRect", "drawFilledRect"}

penOthers == <<drawVars, imageVars, lineFrame, ocr, display, release>>

(* gdi32 DeleteObject(handle).  Deleting the pen a device context holds is *)
(* outside the GDI contract: the system either keeps the object (freed     *)
(* FALSE) or frees it under the context (freed TRUE).                      *)
deleteObject(pen, handle, freed) ==
    IF handle = 0 THEN pen
    ELSE IF ~pen.objects[handle].alive
    THEN [pen EXCEPT !.objects[handle].deletes = @ + 1]
    ELSE IF pen.hasDC /\ pen.selected = handle
    THEN [pen EXCEPT !.objects[handle].deletes = @ + 1,
                     !.objects[handle].selectedThen = TRUE,
                     !.objects[handle].alive = ~freed]
    ELSE [pen EXCEPT !.objects[handle].deletes = @ + 1,
                     !.objects[handle].alive = FALSE]

(* gdi32 SelectObject(dc, handle): the context takes the object and the    *)
(* call returns the one it held; null, nothing changed, for a handle that  *)
(* is no longer an object.                                                 *)
selectObject(pen, handle) ==
    IF pen.objects[handle].alive
    THEN [pen |-> [pen EXCEPT !.selected = handle], returned |-> pen.selected]
    ELSE [pen |-> pen, returned |-> 0]

(* createPenHandle(): delete the current handle, create a pen (created     *)
(* FALSE: CreatePen returned null), select it and keep what SelectObject   *)
(* returned as oldPen.  actions.createPen throws for a negative width,     *)
(* after the deletion.                                                     *)
createPenHandle(pen, created, freed) ==
    LET afterDelete == deleteObject(pen, pen.penHandle, freed)
        handle == IF created THEN Len(pen.objects) + 1 ELSE 0
        afterCreate ==
            [afterDelete EXCEPT
                !.objects = IF created
                            THEN Append(@, [alive |-> TRUE, deletes |-> 0, selectedThen |-> FALSE])
                            ELSE @,
                !.penHandle = handle]
        sel == selectObject(afterCreate, handle)
    IN  IF pen.width < 0 THEN [afterDelete EXCEPT !.threw = TRUE]
        ELSE IF pen.hasDC /\ handle # 0 THEN [sel.pen EXCEPT !.oldPen = sel.returned]
        ELSE afterCreate

(* new Pen(window, {color, width: 1})                                      *)
NewPen(hasDC, created) ==
    createPenHandle(
        [pc |-> "pen", hasDC |-> hasDC, selected |-> 1,
         objects |-> << [alive |-> TRUE, deletes |-> 0, selectedThen |-> FALSE] >>,
         penHandle |-> 0, oldPen |-> 0, color |-> Green, width |-> 1,
         calls |-> 0, threw |-> FALSE, changed |-> FALSE, last |-> "new"],
        created, FALSE)

PenCall(op, pen) ==
    /\ overlay.pc = "pen"
    /\ overlay.calls < MaxPenCalls
    /\ overlay' = [pen EXCEPT !.calls = @ + 1, !.last = op]
    /\ UNCHANGED penOthers

setColor ==
    \E color \in PenColors, created \in BOOLEAN, freed \in BOOLEAN :
        PenCall("setColor",
                createPenHandle([overlay EXCEPT !.color = color, !.threw = FALSE,
                                                !.changed = TRUE],
                                created, freed))

setWidth ==
    \E width \in PenWidths, created \in BOOLEAN, freed \in BOOLEAN :
        PenCall("setWidth",
                createPenHandle([overlay EXCEPT !.width = width, !.threw = FALSE,
                                                !.changed = TRUE],
                                created, freed))

(* drawLine, drawRect, drawFilledRect: the brushes they select are put     *)
(* back and the brush they create is deleted within the call; the pens are *)
(* left alone.                                                             *)
penDraw ==
    \E op \in PenDrawings : PenCall(op, [overlay EXCEPT !.threw = FALSE])

(* Pen.destroy()                                                           *)
penDestroy ==
    \E freed \in BOOLEAN :
        /\ overlay.pc = "pen"
        /\ LET reselected ==
                   IF overlay.hasDC /\ overlay.oldPen # 0
                   THEN [selectObject(overlay, overlay.oldPen).pen EXCEPT !.oldPen = 0]
                   ELSE overlay
               deleted == deleteObject(reselected, reselected.penHandle, freed)
           IN  overlay' = [deleted EXCEPT !.penHandle = 0, !.pc = "destroyed",
                                          !.threw = FALSE, !.last = "destroy"]
        /\ UNCHANGED penOthers

InitPen ==
    /\ \E hasDC \in BOOLEAN, created \in BOOLEAN : overlay = NewPen(hasDC, created)
    /\ NoDrawer /\ NoImage
    /\ lineFrame = Unused /\ ocr = Unused /\ display = Unused /\ release = Unused

NextPen ==
    \/ setColor
    \/ setWidth
    \/ penDraw
    \/ penDestroy

SpecPen == InitPen /\ [][NextPen]_vars

(* The pens the Pen created: every handle but the first.                   *)
CreatedPens == 2..Len(overlay.objects)

(* No DeleteObject call was made on the pen the device context held.       *)
NeverDeletesSelected ==
    \A h \in CreatedPens : ~overlay.objects[h].selectedThen

(* After destroy() every created pen is gone, by its only DeleteObject.    *)
DeletedExactlyOnce ==
    overlay.pc = "destroyed" =>
        \A h \in CreatedPens :
            ~overlay.objects[h].alive /\ overlay.objects[h].deletes = 1

(* After destroy() the device context holds the pen it held before the Pen *)
(* was constructed.                                                        *)
DestroyRestoresPen ==
    overlay.pc = "destroyed" => overlay.selected = 1

(* C27: for every sequence of setColor, setWidth and drawing calls on a    *)
(* Pen followed by destroy(), the Pen never deletes a GDI pen while the    *)
(* device context holds it, every pen it created is deleted exactly once,  *)
(* and destroy() selects back the pen the context held before the Pen was  *)
(* constructed.                                                            *)
C27_PenHandles ==
    NeverDeletesSelected /\ DeletedExactlyOnce /\ DestroyRestoresPen

(* The same for the Pens that were only drawn with: no setColor and no     *)
(* setWidth call before destroy().                                         *)
OnlyDrawnPenHandles == ~overlay.changed => C27_PenHandles

====
